---- MODULE Spec2Model ----
(***************************************************************************)
(* A model of the analysis engine of seo-meta-analyzer                     *)
(* (src/server/index.ts): analyzeDocument and everything it calls.         *)
(*                                                                         *)
(* Text is kept as TLA+ strings and handled character by character, so     *)
(* trimming, lower-casing, splitting, number formatting and URL parsing    *)
(* are computed, not assumed.  An optional value (string | undefined) is a *)
(* sequence of length 0 or 1: <<>> is undefined, <<s>> is the string s.    *)
(* The typographic characters of the source's messages are written in      *)
(* ASCII: an em dash is "--", an en dash is "-", a multiplication sign "x".*)
(***************************************************************************)
EXTENDS Integers, Sequences, FiniteSets

(***************************************************************************)
(* Strings                                                                 *)
(***************************************************************************)

undefined == <<>>

Some(s) == <<s>>

\* JavaScript truthiness of a string | undefined: neither undefined nor "".
Truthy(v) == v # undefined /\ v[1] # ""

\* String.prototype.slice(m - 1, n): the characters m..n of s, those that exist.
Slice(s, m, n) ==
    LET lo == IF m < 1 THEN 1 ELSE m
        hi == IF n > Len(s) THEN Len(s) ELSE n
    IN  IF lo > hi THEN "" ELSE SubSeq(s, lo, hi)

CharAt(s, i) == Slice(s, i, i)

Chars(s) == {CharAt(s, i) : i \in 1..Len(s)}

LowerAlphabet == "abcdefghijklmnopqrstuvwxyz"

UpperAlphabet == "ABCDEFGHIJKLMNOPQRSTUVWXYZ"

DecimalDigits == "0123456789"

\* The white space String.prototype.trim strips, as far as the inputs use it.
WhiteSpace == {" ", "\t", "\n"}

RECURSIVE FirstOutside(_, _, _)
\* The first index >= i of s whose character is not in set; Len(s)+1 if none.
FirstOutside(s, set, i) ==
    IF i > Len(s) THEN i
    ELSE IF CharAt(s, i) \in set THEN FirstOutside(s, set, i + 1)
    ELSE i

RECURSIVE LastOutside(_, _, _)
\* The last index <= i of s whose character is not in set; 0 if none.
LastOutside(s, set, i) ==
    IF i < 1 THEN 0
    ELSE IF CharAt(s, i) \in set THEN LastOutside(s, set, i - 1)
    ELSE i

Strip(s, set) == Slice(s, FirstOutside(s, set, 1), LastOutside(s, set, Len(s)))

\* String.prototype.trim
trim(s) == Strip(s, WhiteSpace)

\* The first index >= i at which character c occurs in s; 0 if none.
IndexOf(s, c, i) ==
    LET hits == {k \in i..Len(s) : SubSeq(s, k, k) = c}
    IN  IF hits = {} THEN 0 ELSE CHOOSE k \in hits : \A j \in hits : k <= j

UpperChars == Chars(UpperAlphabet)

\* The lower-case letter of each upper-case letter.
LowerOf == [c \in UpperChars |-> CharAt(LowerAlphabet, IndexOf(UpperAlphabet, c, 1))]

LowerChar(c) == IF c \in UpperChars THEN LowerOf[c] ELSE c

\* No character of s is in set.
Avoids(s, set) == \A i \in 1..Len(s) : SubSeq(s, i, i) \notin set

RECURSIVE LowerCased(_)
\* Each character of s lower-cased, the string halved at each step.
LowerCased(s) ==
    IF Len(s) <= 1 THEN LowerChar(s)
    ELSE LowerCased(SubSeq(s, 1, Len(s) \div 2))
            \o LowerCased(SubSeq(s, (Len(s) \div 2) + 1, Len(s)))

\* String.prototype.toLowerCase (ASCII letters)
toLowerCase(s) == IF Avoids(s, UpperChars) THEN s ELSE LowerCased(s)

\* String.prototype.includes
includes(s, sub) ==
    \E i \in 1..(Len(s) - Len(sub) + 1) : Slice(s, i, i + Len(sub) - 1) = sub

startsWith(s, prefix) == Slice(s, 1, Len(prefix)) = prefix

RECURSIVE split(_, _)
\* String.prototype.split on a one-character separator
split(s, sep) ==
    LET i == IndexOf(s, sep, 1)
    IN  IF i = 0 THEN <<s>>
        ELSE <<Slice(s, 1, i - 1)>> \o split(Slice(s, i + 1, Len(s)), sep)

RECURSIVE Without(_, _)
\* s with every character of set removed
Without(s, set) ==
    IF Avoids(s, set) THEN s
    ELSE IF Len(s) <= 1 THEN ""
    ELSE Without(SubSeq(s, 1, Len(s) \div 2), set)
            \o Without(SubSeq(s, (Len(s) \div 2) + 1, Len(s)), set)

RECURSIVE NumberToString(_)
\* The decimal text a template literal gives a non-negative integer.
NumberToString(n) ==
    IF n < 10 THEN CharAt(DecimalDigits, n + 1)
    ELSE NumberToString(n \div 10) \o CharAt(DecimalDigits, (n % 10) + 1)

RECURSIVE Repeat(_, _)
\* String.prototype.repeat
Repeat(s, n) ==
    IF n = 0 THEN ""
    ELSE LET half == Repeat(s, n \div 2)
         IN  IF n % 2 = 0 THEN half \o half ELSE half \o half \o s

RECURSIVE SumSeq(_)
SumSeq(seq) == IF seq = <<>> THEN 0 ELSE Head(seq) + SumSeq(Tail(seq))

(***************************************************************************)
(* URLs: the WHATWG parser behind `new URL(value)` and                     *)
(* `new URL(value, base)`, for values without userinfo, port, query,       *)
(* fragment or backslash.  A URL record has a scheme, a host, a path (its  *)
(* segments) and, for a non-special scheme, the opaque rest.               *)
(***************************************************************************)

SpecialSchemes == {"http", "https"}

\* Leading and trailing C0 control or space is stripped from the input.
C0OrSpace == {" ", "\t", "\n"}

\* ASCII tab and newline are removed wherever they stand.
TabOrNewline == {"\t", "\n"}

AlphaChars == Chars(LowerAlphabet) \cup UpperChars

SchemeChars == AlphaChars \cup Chars(DecimalDigits) \cup {"+", "-", "."}

\* The index of the ":" ending a scheme at the start of s; 0 without a scheme.
SchemeEnd(s) ==
    LET p == IndexOf(s, ":", 1)
    IN  IF /\ p > 1
           /\ CharAt(s, 1) \in AlphaChars
           /\ \A i \in 1..(p - 1) : CharAt(s, i) \in SchemeChars
        THEN p ELSE 0

\* Forbidden host code points, as far as the inputs use them.
ForbiddenHost == {" ", ":"}

RECURSIVE PercentEncode(_)
\* The path percent-encode set, as far as the inputs use it: the space.
PercentEncode(s) ==
    IF Avoids(s, {" "}) THEN s
    ELSE IF Len(s) <= 1 THEN "%20"
    ELSE PercentEncode(SubSeq(s, 1, Len(s) \div 2))
            \o PercentEncode(SubSeq(s, (Len(s) \div 2) + 1, Len(s)))

Shorten(path) == IF path = <<>> THEN path ELSE SubSeq(path, 1, Len(path) - 1)

RECURSIVE PathState(_, _, _)
\* The path state: the segments segs[i..] pushed onto path.
PathState(path, segs, i) ==
    IF i > Len(segs) THEN path
    ELSE LET seg == segs[i]
             last == (i = Len(segs))
             next == IF seg = ".."
                        THEN (IF last THEN Append(Shorten(path), "") ELSE Shorten(path))
                     ELSE IF seg = "."
                        THEN (IF last THEN Append(path, "") ELSE path)
                     ELSE Append(path, PercentEncode(seg))
         IN  PathState(next, segs, i + 1)

\* The authority and path of a special URL, slashes before the host skipped.
\* An empty host or a forbidden host code point is failure.
AuthorityState(scheme, rest) ==
    LET s == Slice(rest, FirstOutside(rest, {"/"}, 1), Len(rest))
        slash == IndexOf(s, "/", 1)
        host == IF slash = 0 THEN s ELSE Slice(s, 1, slash - 1)
        tail == IF slash = 0 THEN "" ELSE Slice(s, slash + 1, Len(s))
    IN  IF host = "" \/ ~Avoids(host, ForbiddenHost)
        THEN undefined
        ELSE Some([scheme |-> scheme, host |-> toLowerCase(host),
                   path |-> PathState(<<>>, split(tail, "/"), 1), opaque |-> ""])

\* The relative state: s, which has no scheme, against the special URL base.
RelativeState(s, base) ==
    IF startsWith(s, "//") THEN AuthorityState(base.scheme, s)
    ELSE IF startsWith(s, "/")
        THEN Some([base EXCEPT !.path = PathState(<<>>, split(Slice(s, 2, Len(s)), "/"), 1)])
    ELSE IF s = "" THEN Some(base)
    ELSE Some([base EXCEPT !.path = PathState(Shorten(base.path), split(s, "/"), 1)])

\* new URL(value, base): the URL record, or undefined where the constructor
\* throws.  base is undefined for the one-argument constructor.
ParseURL(value, base) ==
    LET input == Without(Strip(value, C0OrSpace), TabOrNewline)
        p == SchemeEnd(input)
        scheme == toLowerCase(Slice(input, 1, p - 1))
        rest == Slice(input, p + 1, Len(input))
    IN  IF p > 0
        THEN IF scheme \in SpecialSchemes
             THEN IF /\ base # undefined
                     /\ base[1].scheme = scheme
                     /\ ~startsWith(rest, "//")
                  THEN RelativeState(rest, base[1])
                  ELSE AuthorityState(scheme, rest)
             ELSE Some([scheme |-> scheme, host |-> "", path |-> <<>>, opaque |-> rest])
        ELSE IF base = undefined \/ base[1].scheme \notin SpecialSchemes
             THEN undefined
             ELSE RelativeState(input, base[1])

RECURSIVE SerializePath(_)
SerializePath(path) ==
    IF path = <<>> THEN "" ELSE "/" \o Head(path) \o SerializePath(Tail(path))

\* URL.prototype.toString
URLToString(url) ==
    IF url.scheme \in SpecialSchemes
    THEN url.scheme \o "://" \o url.host \o SerializePath(url.path)
    ELSE url.scheme \o ":" \o url.opaque

\* URL.prototype.hostname
hostname(url) == url.host

(***************************************************************************)
(* The parsed document.  cheerio's `$` is read only through four kinds of  *)
(* selector, so a document is what those selectors find: the text of the   *)
(* first <title>, the content attribute of each meta[name=...] and         *)
(* meta[property=...], and the href of link[rel="canonical"]; undefined    *)
(* where the element (or the attribute) is not in the document.            *)
(***************************************************************************)

MetaNames == {"description", "keywords", "robots", "twitter:card", "twitter:title",
              "twitter:description", "twitter:image"}

Properties == {"og:title", "og:description", "og:image", "og:url", "og:type"}

\* $('title').first().text(): the empty string when there is no <title>.
TitleText(doc) == IF doc.title = undefined THEN "" ELSE doc.title[1]

\* An exception in place of a value.
Thrown == <<>>

Returned(v) == <<v>>

\* a ?? b
Coalesce(a, b) == IF a # undefined THEN a ELSE b

(***************************************************************************)
(* Tag extraction and URL resolution                                       *)
(***************************************************************************)

normalizeText(value) ==
    IF ~Truthy(value) THEN undefined
    ELSE LET trimmed == trim(value[1])
         IN  IF Len(trimmed) # 0 THEN Some(trimmed) ELSE undefined

safeUrl(value) == ParseURL(value, undefined)


\* resolveMaybeUrl parsing the value on its own, without the base URL.
resolveMaybeUrlWithoutBase(value, baseUrl) ==
    IF ~Truthy(value) THEN undefined
    ELSE LET resolved == ParseURL(value[1], undefined)
         IN  IF resolved = Thrown THEN undefined ELSE Some(URLToString(resolved[1]))

resolveMaybeUrl(value, baseUrl) ==
    IF ~Truthy(value) THEN undefined
    ELSE LET resolved == ParseURL(value[1], Some(baseUrl))
         IN  IF resolved = Thrown THEN undefined ELSE Some(URLToString(resolved[1]))

getMeta(doc, name) == normalizeText(doc.meta[name])

getProperty(doc, property) == normalizeText(doc.property[property])

getCanonical(doc, baseUrl) == resolveMaybeUrl(doc.canonical, baseUrl)

(***************************************************************************)
(* The rules: one TagResult per tracked tag                                *)
(***************************************************************************)

\* A TagResult literal; value, length and recommendation are optional fields.
TagResult(tag, label, value, length, status, score, message, recommendation) ==
    [tag |-> tag, label |-> label, value |-> value, length |-> length,
     status |-> status, score |-> score, message |-> message,
     recommendation |-> recommendation]

\* createMissingTag scoring a non-critical omission 0, like a critical one.
createMissingTagScoreZero(tag, label, critical, recommendation) ==
    TagResult(tag, label, undefined, undefined,
              IF critical THEN "error" ELSE "warning",
              0,
              label \o " not found.", Some(recommendation))

createMissingTag(tag, label, critical, recommendation) ==
    TagResult(tag, label, undefined, undefined,
              IF critical THEN "error" ELSE "warning",
              IF critical THEN 0 ELSE 50,
              label \o " not found.", Some(recommendation))

\* evaluateTitle with its window's bounds excluded.
evaluateTitleExclusive(value) ==
    IF ~Truthy(value)
    THEN createMissingTag("title", "Title", TRUE,
                          "Add a unique, descriptive title (50-60 characters).")
    ELSE LET length == Len(value[1])
         IN  IF length <= 30 \/ length >= 70
             THEN TagResult("title", "Title", value, Some(length), "warning", 60,
                    "Title length is " \o NumberToString(length)
                        \o " characters -- aim for 50-60.",
                    Some("Keep the primary query and brand within a 50-60 character window."))
             ELSE TagResult("title", "Title", value, Some(length), "ok", 95,
                    "Title length looks good.",
                    Some("Review it periodically to stay aligned with the page intent."))

evaluateTitle(value) ==
    IF ~Truthy(value)
    THEN createMissingTag("title", "Title", TRUE,
                          "Add a unique, descriptive title (50-60 characters).")
    ELSE LET length == Len(value[1])
         IN  IF length < 30 \/ length > 70
             THEN TagResult("title", "Title", value, Some(length), "warning", 60,
                    "Title length is " \o NumberToString(length)
                        \o " characters -- aim for 50-60.",
                    Some("Keep the primary query and brand within a 50-60 character window."))
             ELSE TagResult("title", "Title", value, Some(length), "ok", 95,
                    "Title length looks good.",
                    Some("Review it periodically to stay aligned with the page intent."))

evaluateDescription(value) ==
    IF ~Truthy(value)
    THEN createMissingTag("meta[name=\"description\"]", "Meta Description", TRUE,
                          "Provide a meta description (70-160 characters).")
    ELSE LET length == Len(value[1])
         IN  IF length < 70 \/ length > 160
             THEN TagResult("meta[name=\"description\"]", "Meta Description", value,
                    Some(length), "warning", 60,
                    "Description has " \o NumberToString(length)
                        \o " characters -- aim for 70-160.",
                    Some("Highlight the value proposition and CTA within 70-160 characters."))
             ELSE TagResult("meta[name=\"description\"]", "Meta Description", value,
                    Some(length), "ok", 95,
                    "Meta description length is optimal.",
                    Some("Keep the snippet accurate and aligned with the page content."))

\* evaluateKeywords counting every comma-separated item, the empty ones too.
evaluateKeywordsCountingEmpty(value) ==
    IF ~Truthy(value)
    THEN TagResult("meta[name=\"keywords\"]", "Meta Keywords", undefined, undefined,
            "warning", 50,
            "Keywords tag is missing -- search engines largely ignore it.",
            Some("Optional, but ensure important queries appear naturally in the content."))
    ELSE LET keywords == split(value[1], ",")
         IN  IF Len(keywords) > 10
             THEN TagResult("meta[name=\"keywords\"]", "Meta Keywords", value, undefined,
                    "warning", 55,
                    "Too many keywords listed (" \o NumberToString(Len(keywords)) \o ").",
                    Some("Limit the list to 5-10 relevant phrases."))
             ELSE TagResult("meta[name=\"keywords\"]", "Meta Keywords", value, undefined,
                    "ok", 80,
                    "Keywords are present but offer limited SEO value.",
                    Some("Avoid keyword stuffing -- keep phrasing natural."))

evaluateKeywords(value) ==
    IF ~Truthy(value)
    THEN TagResult("meta[name=\"keywords\"]", "Meta Keywords", undefined, undefined,
            "warning", 50,
            "Keywords tag is missing -- search engines largely ignore it.",
            Some("Optional, but ensure important queries appear naturally in the content."))
    ELSE LET items == split(value[1], ",")
             keywords == SelectSeq([i \in 1..Len(items) |-> trim(items[i])],
                                   LAMBDA item : item # "")
         IN  IF Len(keywords) > 10
             THEN TagResult("meta[name=\"keywords\"]", "Meta Keywords", value, undefined,
                    "warning", 55,
                    "Too many keywords listed (" \o NumberToString(Len(keywords)) \o ").",
                    Some("Limit the list to 5-10 relevant phrases."))
             ELSE TagResult("meta[name=\"keywords\"]", "Meta Keywords", value, undefined,
                    "ok", 80,
                    "Keywords are present but offer limited SEO value.",
                    Some("Avoid keyword stuffing -- keep phrasing natural."))

evaluateCanonical(value, baseUrl) ==
    IF ~Truthy(value)
    THEN createMissingTag("link[rel=\"canonical\"]", "Canonical", FALSE,
            "Set a canonical URL to protect against duplicates, especially with URL parameters.")
    ELSE LET resolved == resolveMaybeUrl(value, baseUrl)
         IN  IF ~Truthy(resolved)
             THEN TagResult("link[rel=\"canonical\"]", "Canonical", value, undefined,
                    "error", 10,
                    "Canonical contains an invalid URL.",
                    Some("Use an absolute URL without parameters and prefer https."))
             ELSE LET canonicalUrl == safeUrl(resolved[1])
                  IN  IF canonicalUrl = Thrown
                      THEN TagResult("link[rel=\"canonical\"]", "Canonical", value,
                             undefined, "error", 10,
                             "Unable to parse the canonical URL.",
                             Some("Ensure the link is valid and uses the https:// scheme."))
                      ELSE TagResult("link[rel=\"canonical\"]", "Canonical",
                             Some(URLToString(canonicalUrl[1])), undefined, "ok", 90,
                             "Canonical tag is defined and valid.",
                             Some("Confirm it matches the primary page URL."))

\* evaluateRobots looking for the directives in the value as written.
evaluateRobotsCaseSensitive(value) ==
    IF ~Truthy(value)
    THEN TagResult("meta[name=\"robots\"]", "Meta Robots", undefined, undefined,
            "warning", 60,
            "Meta robots tag is missing -- pages are indexable by default.",
            Some("Add meta robots if you need to restrict indexing or link following."))
    ELSE IF includes(value[1], "noindex") \/ includes(value[1], "nofollow")
         THEN TagResult("meta[name=\"robots\"]", "Meta Robots", value, undefined,
                "warning", 40,
                "Directives detected: " \o value[1] \o ".",
                Some("Ensure noindex/nofollow values are intentional."))
         ELSE TagResult("meta[name=\"robots\"]", "Meta Robots", value, undefined,
                "ok", 85,
                "Meta robots allows indexing.",
                Some("Review robots directives whenever you publish new content."))

evaluateRobots(value) ==
    IF ~Truthy(value)
    THEN TagResult("meta[name=\"robots\"]", "Meta Robots", undefined, undefined,
            "warning", 60,
            "Meta robots tag is missing -- pages are indexable by default.",
            Some("Add meta robots if you need to restrict indexing or link following."))
    ELSE LET content == toLowerCase(value[1])
         IN  IF includes(content, "noindex") \/ includes(content, "nofollow")
             THEN TagResult("meta[name=\"robots\"]", "Meta Robots", value, undefined,
                    "warning", 40,
                    "Directives detected: " \o value[1] \o ".",
                    Some("Ensure noindex/nofollow values are intentional."))
             ELSE TagResult("meta[name=\"robots\"]", "Meta Robots", value, undefined,
                    "ok", 85,
                    "Meta robots allows indexing.",
                    Some("Review robots directives whenever you publish new content."))

evaluateOpenGraphTitle(value) ==
    IF ~Truthy(value)
    THEN createMissingTag("meta[property=\"og:title\"]", "OG Title", TRUE,
                          "Provide og:title to craft an engaging social preview.")
    ELSE LET length == Len(value[1])
         IN  IF length < 30 \/ length > 95
             THEN TagResult("meta[property=\"og:title\"]", "OG Title", value,
                    Some(length), "warning", 60,
                    "og:title is " \o NumberToString(length)
                        \o " characters -- aim for 40-80.",
                    Some("Make the headline punchy and readable within 40-80 characters."))
             ELSE TagResult("meta[property=\"og:title\"]", "OG Title", value,
                    Some(length), "ok", 95,
                    "og:title looks good.",
                    Some("Keep it aligned with the core message of the page."))

evaluateOpenGraphDescription(value) ==
    IF ~Truthy(value)
    THEN createMissingTag("meta[property=\"og:description\"]", "OG Description", TRUE,
                          "Add og:description (80-200 characters) for social previews.")
    ELSE LET length == Len(value[1])
         IN  IF length < 80 \/ length > 200
             THEN TagResult("meta[property=\"og:description\"]", "OG Description", value,
                    Some(length), "warning", 60,
                    "og:description is " \o NumberToString(length)
                        \o " characters -- target 80-200.",
                    Some("Explain the value and include a CTA within 80-200 characters."))
             ELSE TagResult("meta[property=\"og:description\"]", "OG Description", value,
                    Some(length), "ok", 90,
                    "og:description is in good shape.",
                    Some("Validate the snippet via the Facebook Sharing Debugger."))


\* evaluateOpenGraphImage reporting a value that does not resolve as missing.
evaluateOpenGraphImageUnresolvedIsMissing(value, baseUrl) ==
    IF ~Truthy(resolveMaybeUrl(value, baseUrl))
    THEN createMissingTag("meta[property=\"og:image\"]", "OG Image", TRUE,
                          "Add og:image (minimum 1200x630 px) for rich previews.")
    ELSE TagResult("meta[property=\"og:image\"]", "OG Image",
            resolveMaybeUrl(value, baseUrl), undefined, "ok", 95,
            "og:image is set.",
            Some("Ensure it is at least 1200x630 px in JPEG or WebP format."))

evaluateOpenGraphImage(value, baseUrl) ==
    IF ~Truthy(value)
    THEN createMissingTag("meta[property=\"og:image\"]", "OG Image", TRUE,
                          "Add og:image (minimum 1200x630 px) for rich previews.")
    ELSE LET resolved == resolveMaybeUrl(value, baseUrl)
         IN  IF ~Truthy(resolved)
             THEN TagResult("meta[property=\"og:image\"]", "OG Image", value, undefined,
                    "error", 10,
                    "Invalid URL in og:image.",
                    Some("Use an absolute https link to the image asset."))
             ELSE TagResult("meta[property=\"og:image\"]", "OG Image", resolved, undefined,
                    "ok", 95,
                    "og:image is set.",
                    Some("Ensure it is at least 1200x630 px in JPEG or WebP format."))

evaluateOptionalUrl(tag, label, value) ==
    IF ~Truthy(value)
    THEN TagResult(tag, label, undefined, undefined, "warning", 55,
            label \o " is missing.",
            Some("Add the " \o toLowerCase(label) \o " to keep metadata consistent."))
    ELSE TagResult(tag, label, value, undefined, "ok", 85,
            label \o " is set.",
            Some("Make sure the " \o toLowerCase(label) \o " matches the canonical URL."))

\* evaluateOpenGraphType reporting the omission as a critical one.
evaluateOpenGraphTypeCritical(value) ==
    IF ~Truthy(value)
    THEN createMissingTag("meta[property=\"og:type\"]", "OG Type", TRUE,
                          "Set a type such as website, article, or product.")
    ELSE TagResult("meta[property=\"og:type\"]", "OG Type", value, undefined, "ok", 85,
            "OG type is set.",
            Some("Keep it aligned with the page content."))

evaluateOpenGraphType(value) ==
    IF ~Truthy(value)
    THEN TagResult("meta[property=\"og:type\"]", "OG Type", undefined, undefined,
            "warning", 55,
            "OG type is missing.",
            Some("Set a type such as website, article, or product."))
    ELSE TagResult("meta[property=\"og:type\"]", "OG Type", value, undefined, "ok", 85,
            "OG type is set.",
            Some("Keep it aligned with the page content."))


\* evaluateTwitterCard comparing the value as it is written.
evaluateTwitterCardCaseSensitive(value) ==
    IF ~Truthy(value)
    THEN TagResult("meta[name=\"twitter:card\"]", "Twitter Card", undefined, undefined,
            "warning", 55,
            "Twitter card is not defined.",
            Some("Use summary_large_image for rich link previews."))
    ELSE IF value[1] # "summary_large_image" /\ value[1] # "summary"
         THEN TagResult("meta[name=\"twitter:card\"]", "Twitter Card", value,
                undefined, "warning", 60,
                "Non-standard twitter:card value -- " \o value[1] \o ".",
                Some("Use summary or summary_large_image for consistent rendering."))
         ELSE TagResult("meta[name=\"twitter:card\"]", "Twitter Card",
                value, undefined, "ok", 85,
                "Twitter card value looks good.",
                Some("Validate it with the Twitter Card Validator."))

evaluateTwitterCard(value) ==
    IF ~Truthy(value)
    THEN TagResult("meta[name=\"twitter:card\"]", "Twitter Card", undefined, undefined,
            "warning", 55,
            "Twitter card is not defined.",
            Some("Use summary_large_image for rich link previews."))
    ELSE LET normalized == toLowerCase(value[1])
         IN  IF normalized # "summary_large_image" /\ normalized # "summary"
             THEN TagResult("meta[name=\"twitter:card\"]", "Twitter Card", value,
                    undefined, "warning", 60,
                    "Non-standard twitter:card value -- " \o value[1] \o ".",
                    Some("Use summary or summary_large_image for consistent rendering."))
             ELSE TagResult("meta[name=\"twitter:card\"]", "Twitter Card",
                    Some(normalized), undefined, "ok", 85,
                    "Twitter card value looks good.",
                    Some("Validate it with the Twitter Card Validator."))


\* evaluateTwitterTitle with a lower bound of 30, as the title rule has.
evaluateTwitterTitleTwoSided(value) ==
    IF ~Truthy(value)
    THEN createMissingTag("meta[name=\"twitter:title\"]", "Twitter Title", TRUE,
                          "Add twitter:title -- keep it short and compelling.")
    ELSE LET length == Len(value[1])
         IN  IF length < 30 \/ length > 70
             THEN TagResult("meta[name=\"twitter:title\"]", "Twitter Title", value,
                    Some(length), "warning", 60,
                    "Twitter title has " \o NumberToString(length)
                        \o " characters -- trim to 70.",
                    Some("Rewrite the headline to 70 characters or fewer for social."))
             ELSE TagResult("meta[name=\"twitter:title\"]", "Twitter Title", value,
                    Some(length), "ok", 90,
                    "Twitter title looks good.",
                    Some("Align it with the OG title and HTML title."))

evaluateTwitterTitle(value) ==
    IF ~Truthy(value)
    THEN createMissingTag("meta[name=\"twitter:title\"]", "Twitter Title", TRUE,
                          "Add twitter:title -- keep it short and compelling.")
    ELSE LET length == Len(value[1])
         IN  IF length > 70
             THEN TagResult("meta[name=\"twitter:title\"]", "Twitter Title", value,
                    Some(length), "warning", 60,
                    "Twitter title has " \o NumberToString(length)
                        \o " characters -- trim to 70.",
                    Some("Rewrite the headline to 70 characters or fewer for social."))
             ELSE TagResult("meta[name=\"twitter:title\"]", "Twitter Title", value,
                    Some(length), "ok", 90,
                    "Twitter title looks good.",
                    Some("Align it with the OG title and HTML title."))

evaluateTwitterDescription(value) ==
    IF ~Truthy(value)
    THEN createMissingTag("meta[name=\"twitter:description\"]", "Twitter Description",
                          TRUE, "Add twitter:description (up to 200 characters).")
    ELSE LET length == Len(value[1])
         IN  IF length > 200
             THEN TagResult("meta[name=\"twitter:description\"]", "Twitter Description",
                    value, Some(length), "warning", 60,
                    "Twitter description has " \o NumberToString(length)
                        \o " characters -- limit to 200.",
                    Some("Focus on the key benefit within 200 characters."))
             ELSE TagResult("meta[name=\"twitter:description\"]", "Twitter Description",
                    value, Some(length), "ok", 90,
                    "Twitter description length is on point.",
                    Some("Surface the value and CTA tailored for social."))


\* evaluateTwitterImage leaving the value out of its result.
evaluateTwitterImageWithoutValue(value) ==
    IF ~Truthy(value)
    THEN TagResult("meta[name=\"twitter:image\"]", "Twitter Image", undefined, undefined,
            "warning", 55,
            "Twitter image is not specified.",
            Some("Provide an image 1200x630 px or 800x418 px for cards."))
    ELSE TagResult("meta[name=\"twitter:image\"]", "Twitter Image", undefined, undefined,
            "ok", 85,
            "Twitter image is set.",
            Some("Ensure the image is accessible and in a supported format."))

evaluateTwitterImage(value) ==
    IF ~Truthy(value)
    THEN TagResult("meta[name=\"twitter:image\"]", "Twitter Image", undefined, undefined,
            "warning", 55,
            "Twitter image is not specified.",
            Some("Provide an image 1200x630 px or 800x418 px for cards."))
    ELSE TagResult("meta[name=\"twitter:image\"]", "Twitter Image", value, undefined,
            "ok", 85,
            "Twitter image is set.",
            Some("Ensure the image is accessible and in a supported format."))

(***************************************************************************)
(* Section aggregation                                                     *)
(***************************************************************************)

\* MathRound with the fraction dropped, as Math.floor or Math.trunc would.
MathRoundDown(num, den) == num \div den

\* Math.round(num / den) for den > 0: the nearest integer, a half rounded up.
MathRound(num, den) == ((2 * num) + den) \div (2 * den)

\* deriveSectionStatus with its two tests in the other order.
deriveSectionStatusWarningFirst(tags) ==
    IF \E i \in 1..Len(tags) : tags[i].status = "warning" THEN "warning"
    ELSE IF \E i \in 1..Len(tags) : tags[i].status = "error" THEN "error"
    ELSE "ok"

deriveSectionStatus(tags) ==
    IF \E i \in 1..Len(tags) : tags[i].status = "error" THEN "error"
    ELSE IF \E i \in 1..Len(tags) : tags[i].status = "warning" THEN "warning"
    ELSE "ok"

\* deriveSummaryStatus looking for a warning before it looks for an error.
deriveSummaryStatusWarningFirst(sections) ==
    IF \E i \in 1..Len(sections) : sections[i].status = "warning" THEN "warning"
    ELSE IF \E i \in 1..Len(sections) : sections[i].status = "error" THEN "error"
    ELSE "ok"

deriveSummaryStatus(sections) ==
    IF \E i \in 1..Len(sections) : sections[i].status = "error" THEN "error"
    ELSE IF \E i \in 1..Len(sections) : sections[i].status = "warning" THEN "warning"
    ELSE "ok"

summarizeSection(tags) ==
    [score |-> MathRound(SumSeq([i \in 1..Len(tags) |-> tags[i].score]), Len(tags)),
     status |-> deriveSectionStatus(tags),
     tags |-> tags]

evaluateMetaSection(doc, baseUrl) ==
    LET title == normalizeText(Some(TitleText(doc)))
        description == getMeta(doc, "description")
        keywords == getMeta(doc, "keywords")
        canonical == getCanonical(doc, baseUrl)
        robots == getMeta(doc, "robots")
    IN  summarizeSection(<<evaluateTitle(title),
                           evaluateDescription(description),
                           evaluateKeywords(keywords),
                           evaluateCanonical(canonical, baseUrl),
                           evaluateRobots(robots)>>)

\* evaluateOpenGraphSection passing og:url on as extracted, not resolved.
evaluateOpenGraphSectionRawUrl(doc, baseUrl) ==
    summarizeSection(
        <<evaluateOpenGraphTitle(getProperty(doc, "og:title")),
          evaluateOpenGraphDescription(getProperty(doc, "og:description")),
          evaluateOpenGraphImage(getProperty(doc, "og:image"), baseUrl),
          evaluateOptionalUrl("og:url", "OG URL", getProperty(doc, "og:url")),
          evaluateOpenGraphType(getProperty(doc, "og:type"))>>)

evaluateOpenGraphSection(doc, baseUrl) ==
    LET ogTitle == getProperty(doc, "og:title")
        ogDescription == getProperty(doc, "og:description")
        ogImage == getProperty(doc, "og:image")
        ogUrl == resolveMaybeUrl(getProperty(doc, "og:url"), baseUrl)
        ogType == getProperty(doc, "og:type")
    IN  summarizeSection(<<evaluateOpenGraphTitle(ogTitle),
                           evaluateOpenGraphDescription(ogDescription),
                           evaluateOpenGraphImage(ogImage, baseUrl),
                           evaluateOptionalUrl("og:url", "OG URL", ogUrl),
                           evaluateOpenGraphType(ogType)>>)


\* evaluateTwitterSection with the image evaluated first.
evaluateTwitterSectionImageFirst(doc, baseUrl) ==
    summarizeSection(
        <<evaluateTwitterImage(resolveMaybeUrl(getMeta(doc, "twitter:image"), baseUrl)),
          evaluateTwitterCard(getMeta(doc, "twitter:card")),
          evaluateTwitterTitle(getMeta(doc, "twitter:title")),
          evaluateTwitterDescription(getMeta(doc, "twitter:description"))>>)

evaluateTwitterSection(doc, baseUrl) ==
    LET twitterCard == getMeta(doc, "twitter:card")
        twitterTitle == getMeta(doc, "twitter:title")
        twitterDescription == getMeta(doc, "twitter:description")
        twitterImage == resolveMaybeUrl(getMeta(doc, "twitter:image"), baseUrl)
    IN  summarizeSection(<<evaluateTwitterCard(twitterCard),
                           evaluateTwitterTitle(twitterTitle),
                           evaluateTwitterDescription(twitterDescription),
                           evaluateTwitterImage(twitterImage)>>)

(***************************************************************************)
(* Report composition                                                      *)
(***************************************************************************)

severityRank(status) ==
    IF status = "error" THEN 0
    ELSE IF status = "warning" THEN 1
    ELSE 2

RECURSIVE Flat(_)
\* Array.prototype.flat
Flat(seqs) == IF seqs = <<>> THEN <<>> ELSE Head(seqs) \o Flat(Tail(seqs))

\* SortBySeverity with the sort left out.
SortBySeverityOmitted(issues) == issues

RECURSIVE SortBySeverity(_)
\* Array.prototype.sort with (a, b) => severityRank(a.severity) -
\* severityRank(b.severity): a stable sort, built by inserting each issue
\* after the issues before it that do not rank above it.
SortBySeverity(issues) ==
    IF issues = <<>> THEN <<>>
    ELSE LET n == Len(issues)
             last == issues[n]
             sorted == SortBySeverity(SubSeq(issues, 1, n - 1))
         IN  SelectSeq(sorted, LAMBDA a :
                    severityRank(a.severity) <= severityRank(last.severity))
                \o <<last>>
                \o SelectSeq(sorted, LAMBDA a :
                    severityRank(a.severity) > severityRank(last.severity))

RECURSIVE FirstOccurrences(_, _)
\* array.filter((value, index, array) => array.indexOf(value) === index),
\* from index i on
FirstOccurrences(array, i) ==
    IF i > Len(array) THEN <<>>
    ELSE (IF \A j \in 1..(i - 1) : array[j] # array[i] THEN <<array[i]>> ELSE <<>>)
            \o FirstOccurrences(array, i + 1)

\* sections.find(section => section.id === id)?.tags ?? []
TagsOf(sections, id) ==
    LET found == SelectSeq(sections, LAMBDA section : section.id = id)
    IN  IF found = <<>> THEN <<>> ELSE found[1].tags


\* ValueOf reading the value of a tag only when the tag passed its rule.
ValueOfOk(tags, name) ==
    LET found == SelectSeq(tags, LAMBDA tag : tag.tag = name /\ tag.status = "ok")
    IN  IF found = <<>> THEN undefined ELSE found[1].value

\* tags.find(tag => tag.tag === name)?.value
ValueOf(tags, name) ==
    LET found == SelectSeq(tags, LAMBDA tag : tag.tag = name)
    IN  IF found = <<>> THEN undefined ELSE found[1].value

\* The previews, or Thrown: new URL(finalUrl) throws a TypeError when
\* finalUrl does not parse, and it is evaluated when og:url has no value.
buildPreviews(sections, finalUrl, baseUrl) ==
    LET meta == TagsOf(sections, "meta")
        openGraph == TagsOf(sections, "openGraph")
        twitter == TagsOf(sections, "twitter")
        title == Coalesce(ValueOf(meta, "title"),
                    Coalesce(ValueOf(openGraph, "meta[property=\"og:title\"]"),
                             Some("Preview")))[1]
        description == Coalesce(ValueOf(meta, "meta[name=\"description\"]"),
                    Coalesce(ValueOf(openGraph, "meta[property=\"og:description\"]"),
                             Some("")))[1]
        ogTitle == Coalesce(ValueOf(openGraph, "meta[property=\"og:title\"]"),
                            Some(title))[1]
        ogDescription == Coalesce(ValueOf(openGraph, "meta[property=\"og:description\"]"),
                                  Some(description))[1]
        ogImage == Coalesce(ValueOf(openGraph, "meta[property=\"og:image\"]"), undefined)
        ogUrlValue == ValueOf(openGraph, "og:url")
        finalParsed == ParseURL(finalUrl, undefined)
        twitterTitle == Coalesce(ValueOf(twitter, "meta[name=\"twitter:title\"]"),
                                 Some(title))[1]
        twitterDescription == Coalesce(ValueOf(twitter, "meta[name=\"twitter:description\"]"),
                                       Some(description))[1]
        twitterImage == Coalesce(ValueOf(twitter, "meta[name=\"twitter:image\"]"), ogImage)
        twitterCard == Coalesce(ValueOf(twitter, "meta[name=\"twitter:card\"]"),
                                Some("summary_large_image"))[1]
    IN  IF ogUrlValue = undefined /\ finalParsed = Thrown
        THEN Thrown
        ELSE LET ogUrl == Coalesce(ogUrlValue, Some(URLToString(finalParsed[1])))[1]
             IN  Returned(
                  [google |-> [title |-> title,
                               description |-> description,
                               url |-> finalUrl,
                               domain |-> hostname(baseUrl)],
                   openGraph |-> [title |-> ogTitle,
                                  description |-> ogDescription,
                                  url |-> ogUrl,
                                  siteName |-> hostname(baseUrl),
                                  image |-> IF Truthy(ogImage) THEN ogImage ELSE undefined],
                   twitter |-> [title |-> twitterTitle,
                                description |-> twitterDescription,
                                url |-> finalUrl,
                                siteName |-> hostname(baseUrl),
                                card |-> twitterCard,
                                image |-> IF Truthy(twitterImage) THEN twitterImage
                                          ELSE undefined]])

SectionIds == {"meta", "openGraph", "twitter"}

RECURSIVE ReduceSectionScores(_, _)
\* sections.reduce((acc, section) => { acc[section.id] = section.score; return acc }, acc)
ReduceSectionScores(acc, sections) ==
    IF sections = <<>> THEN acc
    ELSE ReduceSectionScores([acc EXCEPT ![Head(sections).id] = Head(sections).score],
                             Tail(sections))

\* The issues of one section: its tags that are not ok, as SeoIssue.
IssuesOf(section) ==
    LET tags == SelectSeq(section.tags, LAMBDA tag : tag.status # "ok")
    IN  [i \in 1..Len(tags) |->
            [id |-> section.id \o "-" \o tags[i].tag,
             tag |-> tags[i].label,
             section |-> section.id,
             severity |-> tags[i].status,
             message |-> tags[i].message,
             recommendation |-> Coalesce(tags[i].recommendation, Some(""))[1]]]

\* MissingOf without the test that the value is absent.
MissingOfAnyError(section) ==
    LET tags == SelectSeq(section.tags, LAMBDA tag : tag.status = "error")
    IN  [i \in 1..Len(tags) |-> tags[i].label]

\* The labels one section contributes to `missing`.
MissingOf(section) ==
    LET tags == SelectSeq(section.tags,
                          LAMBDA tag : tag.status = "error" /\ tag.value = undefined)
    IN  [i \in 1..Len(tags) |-> tags[i].label]

\* safeUrl(finalUrl) ?? safeUrl(requestedUrl) ?? new URL('https://example.com')
BaseUrl(requestedUrl, finalUrl) ==
    Coalesce(safeUrl(finalUrl),
        Coalesce(safeUrl(requestedUrl), ParseURL("https://example.com", undefined)))[1]

\* The three SectionResults of a document, in their fixed order.
Sections(doc, baseUrl) ==
    LET SectionResult(id, label, results) ==
            [id |-> id, label |-> label, score |-> results.score,
             status |-> results.status, tags |-> results.tags]
    IN  <<SectionResult("meta", "Technical meta tags",
                        evaluateMetaSection(doc, baseUrl)),
          SectionResult("openGraph", "Open Graph",
                        evaluateOpenGraphSection(doc, baseUrl)),
          SectionResult("twitter", "Twitter Card",
                        evaluateTwitterSection(doc, baseUrl))>>

\* analyzeDocument(html, requestedUrl, finalUrl) on the document load(html)
\* gives, at time fetchedAt: Returned(the SeoAnalysis), or Thrown.  The
\* constants of the function body are the parameters of the local operators,
\* in the order the body computes them.
analyzeDocument(doc, requestedUrl, finalUrl, fetchedAt) ==
    LET Composed(sections, previews) ==
            LET sectionScores ==
                    ReduceSectionScores([id \in SectionIds |-> 0], sections)
                overallScore ==
                    MathRound(SumSeq([i \in 1..Len(sections) |-> sections[i].score]),
                              Len(sections))
                summaryStatus == deriveSummaryStatus(sections)
                issues == SortBySeverity(
                            Flat([i \in 1..Len(sections) |-> IssuesOf(sections[i])]))
                missing == FirstOccurrences(
                            Flat([i \in 1..Len(sections) |-> MissingOf(sections[i])]), 1)
            IN  IF previews = Thrown
                THEN Thrown
                ELSE Returned([url |-> requestedUrl,
                               finalUrl |-> finalUrl,
                               fetchedAt |-> fetchedAt,
                               summary |-> [overallScore |-> overallScore,
                                            status |-> summaryStatus,
                                            sectionScores |-> sectionScores],
                               sections |-> sections,
                               issues |-> issues,
                               missing |-> missing,
                               previews |-> previews[1]])
        WithSections(baseUrl, sections) ==
            Composed(sections, buildPreviews(sections, finalUrl, baseUrl))
        WithBaseUrl(baseUrl) == WithSections(baseUrl, Sections(doc, baseUrl))
    IN  WithBaseUrl(BaseUrl(requestedUrl, finalUrl))

(***************************************************************************)
(* The inputs: documents that differ from a base document in at most       *)
(* MaxEdits elements, each element taking values around its rule's         *)
(* thresholds, and pairs (requestedUrl, finalUrl) that parse or do not.    *)
(***************************************************************************)

MaxEdits == 1

MaxPad == 2

MaxCalls == 2

Blank == Repeat(" ", MaxPad)

Padded(s) == Blank \o s \o "\n"

EmptyDoc ==
    [title |-> undefined,
     meta |-> [name \in MetaNames |-> undefined],
     property |-> [property \in Properties |-> undefined],
     canonical |-> undefined]

GoodDoc ==
    [title |-> Some(Repeat("t", 50)),
     meta |-> [name \in MetaNames |->
                 CASE name = "description" -> Some(Repeat("d", 120))
                   [] name = "keywords" -> Some("seo, meta, tags")
                   [] name = "robots" -> Some("index, follow")
                   [] name = "twitter:card" -> Some("summary_large_image")
                   [] name = "twitter:title" -> Some(Repeat("w", 40))
                   [] name = "twitter:description" -> Some(Repeat("e", 120))
                   [] name = "twitter:image" -> Some("/t.png")],
     property |-> [property \in Properties |->
                 CASE property = "og:title" -> Some(Repeat("o", 60))
                   [] property = "og:description" -> Some(Repeat("g", 120))
                   [] property = "og:image" -> Some("https://cdn.example.com/i.png")
                   [] property = "og:url" -> Some("https://example.com/page")
                   [] property = "og:type" -> Some("website")],
     canonical |-> Some("https://example.com/page")]

MixedDoc ==
    [title |-> Some(Repeat("t", 50)),
     meta |-> [name \in MetaNames |->
                 CASE name = "description" -> Some("Too short.")
                   [] name = "keywords" -> Some("seo, meta, tags")
                   [] name = "robots" -> Some("noindex")
                   [] name = "twitter:card" -> Some("photo")
                   [] name = "twitter:title" -> Some(Repeat("w", 80))
                   [] name = "twitter:description" -> Some(Repeat("e", 120))
                   [] name = "twitter:image" -> Some("/t.png")],
     property |-> [property \in Properties |->
                 CASE property = "og:title" -> Some(Repeat("o", 60))
                   [] property = "og:description" -> undefined
                   [] property = "og:image" -> Some("http://")
                   [] property = "og:url" -> Some("https://example.com/page")
                   [] property = "og:type" -> undefined],
     canonical |-> undefined]

BaseDocs == {EmptyDoc, GoodDoc, MixedDoc}

\* Values no `new URL(value, base)` resolves: an empty host, a space in the host.
Unresolvable == {"http://", "https://exa mple.com/"}

TitleValues ==
    {undefined, Some(Blank), Some("Short"), Some("My Great Page Title Example"),
     Some(Repeat("t", 29)), Some(Repeat("t", 30)), Some(Padded(Repeat("t", 30))),
     Some(Repeat("t", 70)), Some(Repeat("t", 71))}

MetaValues(name) ==
    CASE name = "description" ->
            {undefined, Some(""), Some(Blank), Some(Repeat("d", 69)), Some(Repeat("d", 70)),
             Some(Repeat("d", 160)), Some(Padded(Repeat("d", 160))), Some(Repeat("d", 161))}
      [] name = "keywords" ->
            {undefined, Some(Blank), Some("seo"), Some(",,,"),
             Some("a,b,c,d,e,f,g,h,i,j"), Some("a, b, c, d, e, f, g, h, i, j, k"),
             Some("a,,b, ,c,d,e,f,g,h,i,j,")}
      [] name = "robots" ->
            {undefined, Some(Blank), Some("all"), Some("NOINDEX"),
             Some("index, NoFollow"), Some("noindexing")}
      [] name = "twitter:card" ->
            {undefined, Some(Blank), Some("summary"), Some("Summary_Large_Image"),
             Some("photo"), Some(Padded("Player"))}
      [] name = "twitter:title" ->
            {undefined, Some(Blank), Some("Hi"), Some(Repeat("w", 70)),
             Some(Repeat("w", 71))}
      [] name = "twitter:description" ->
            {undefined, Some(Blank), Some("Hi"), Some(Repeat("e", 200)),
             Some(Repeat("e", 201))}
      [] name = "twitter:image" ->
            {undefined, Some(Blank), Some("/t.png"), Some("https://cdn.example.com/t.png")}
                \cup {Some(u) : u \in Unresolvable}

PropertyValues(property) ==
    CASE property = "og:title" ->
            {undefined, Some(Blank), Some(Repeat("o", 29)), Some(Repeat("o", 30)),
             Some(Repeat("o", 95)), Some(Repeat("o", 96))}
      [] property = "og:description" ->
            {undefined, Some(Blank), Some(Repeat("g", 79)), Some(Repeat("g", 80)),
             Some(Repeat("g", 200)), Some(Repeat("g", 201))}
      [] property = "og:image" ->
            {undefined, Some(Blank), Some("/img.png"), Some("img/a b.png")}
                \cup {Some(u) : u \in Unresolvable}
      [] property = "og:url" ->
            {undefined, Some(Blank), Some("/about"), Some("HTTPS://Example.com")}
                \cup {Some(u) : u \in Unresolvable}
      [] property = "og:type" ->
            {undefined, Some(Blank), Some("article")}

CanonicalValues ==
    {undefined, Some(""), Some(Blank), Some("/about"), Some("https://example.com/page"),
     Some("../up")}
        \cup {Some(u) : u \in Unresolvable}

\* One edit of a document: an element set to a value, or nothing changed.
Edits ==
    {<<"none", "", undefined>>}
        \cup {<<"title", "", v>> : v \in TitleValues}
        \cup {<<"canonical", "", v>> : v \in CanonicalValues}
        \cup UNION {{<<"meta", name, v>> : v \in MetaValues(name)} : name \in MetaNames}
        \cup UNION {{<<"property", property, v>> : v \in PropertyValues(property)} :
                        property \in Properties}

Edit(doc, e) ==
    CASE e[1] = "none" -> doc
      [] e[1] = "title" -> [doc EXCEPT !.title = e[3]]
      [] e[1] = "canonical" -> [doc EXCEPT !.canonical = e[3]]
      [] e[1] = "meta" -> [doc EXCEPT !.meta[e[2]] = e[3]]
      [] e[1] = "property" -> [doc EXCEPT !.property[e[2]] = e[3]]

RECURSIVE EditAll(_, _)
EditAll(doc, es) == IF es = <<>> THEN doc ELSE EditAll(Edit(doc, Head(es)), Tail(es))

\* (requestedUrl, finalUrl): both parse; finalUrl without its path; finalUrl
\* does not parse; neither parses.
UrlPairs ==
    {<<"https://example.com/start", "https://example.com/">>,
     <<"http://example.com", "https://www.example.com">>,
     <<"https://example.org/dir/page", "not a url">>,
     <<"example.com", "">>}

(***************************************************************************)
(* The state: the arguments of analyzeDocument, the clock, and what the    *)
(* latest call gave; and, for a request to GET /api/analyze, its url query *)
(* parameter, the number of fetch calls, what fetch settled with, and the  *)
(* responses sent.  The client App has its three useState values, the     *)
(* UrlForm's two, and its handleAnalyze calls that have not finished.  A   *)
(* request to the serverless handler has a method and a query; the handler *)
(* sets response headers and calls analyzeUrl, which settles.              *)
(***************************************************************************)

VARIABLES doc, requestedUrl, finalUrl, now, pc, result,
          query, fetches, upstream, sent,
          analysis, isLoading, error, value, urlError, requests,
          req, headers, invoked, analyzed

\* The client's state.
client == <<analysis, isLoading, error, value, urlError, requests>>

\* The serverless handler's state, with query, pc and sent.
serverless == <<req, headers, invoked, analyzed>>

vars == <<doc, requestedUrl, finalUrl, now, pc, result,
          query, fetches, upstream, sent, client, serverless>>

\* The client App as mounted: nothing analysed, nothing typed.
NoClient ==
    /\ analysis = undefined
    /\ isLoading = FALSE
    /\ error = undefined
    /\ value = ""
    /\ urlError = undefined
    /\ requests = <<>>

\* No request to the serverless handler.
NoInvocation ==
    req = undefined /\ headers = {} /\ invoked = <<>> /\ analyzed = undefined

\* No request is being served.
NoRequest == query = undefined /\ fetches = 0 /\ upstream = undefined /\ sent = <<>>

Init ==
    /\ \E base \in BaseDocs, es \in [1..MaxEdits -> Edits] : doc = EditAll(base, es)
    /\ \E pair \in UrlPairs : requestedUrl = pair[1] /\ finalUrl = pair[2]
    /\ now = 0
    /\ pc = "ready"
    /\ result = undefined
    /\ NoRequest
    /\ NoClient
    /\ NoInvocation


\* AnalyzeDocument keeping something of the first call: a later call sees
\* the page without its title.
AnalyzeDocumentRemembering ==
    /\ now < MaxCalls
    /\ now' = now + 1
    /\ result' = analyzeDocument(IF now = 0 THEN doc ELSE [doc EXCEPT !.title = undefined],
                                 requestedUrl, finalUrl, now')
    /\ pc' = IF result' = Thrown THEN "threw" ELSE "returned"
    /\ UNCHANGED <<doc, requestedUrl, finalUrl, query, fetches, upstream, sent>>
    /\ UNCHANGED <<client, serverless>>

\* One call of analyzeDocument on the document and URLs at hand.
AnalyzeDocument ==
    /\ now < MaxCalls
    /\ now' = now + 1
    /\ result' = analyzeDocument(doc, requestedUrl, finalUrl, now')
    /\ pc' = IF result' = Thrown THEN "threw" ELSE "returned"
    /\ UNCHANGED <<doc, requestedUrl, finalUrl, query, fetches, upstream, sent>>
    /\ UNCHANGED <<client, serverless>>

Next == AnalyzeDocument

Spec == Init /\ [][Next]_vars

(***************************************************************************)
(* The route GET /api/analyze: one request, from its arrival to its        *)
(* response.  The handler runs to its first await (fetch), resumes when    *)
(* fetch settles, and resumes again when response.text() settles.          *)
(***************************************************************************)

\* urlSchema.safeParse({ url }): the trimmed url when it is a string that
\* parses as a URL of protocol http: or https:, undefined when it fails.
urlSchema(url) ==
    IF url = undefined THEN undefined
    ELSE LET trimmed == trim(url[1])
             parsed == ParseURL(trimmed, undefined)
         IN  IF parsed # Thrown /\ parsed[1].scheme \in {"http", "https"}
             THEN Some(trimmed)
             ELSE undefined

\* res.status(status).json({ error, ... }) and res.json(analysis)
ErrorResponse(status, text) ==
    [status |-> status, error |-> Some(text), analysis |-> undefined]

AnalysisResponse(report) ==
    [status |-> 200, error |-> undefined, analysis |-> Some(report)]

\* The url query parameters: none, not URLs, URLs of other schemes, http(s)
\* URLs as written by a user.
Queries ==
    {undefined, Some(""), Some(Blank), Some("not a url"), Some("example.com"),
     Some("ftp://example.com/file"), Some("javascript:alert(1)"),
     Some("https://example.com/start"), Some(Padded("http://example.com")),
     Some("HTTP://Example.com/a")}

\* What fetch settles with: a rejection (a network error, the 15 s timeout)
\* or a response, its status and its url after the redirects.
Upstreams ==
    {[settled |-> "rejected", status |-> 0, url |-> "", text |-> "none"]}
        \cup {[settled |-> "fulfilled", status |-> status, url |-> url, text |-> "pending"] :
                 status \in {200, 204, 300, 404, 503},
                 url \in {"https://example.com/", "https://www.example.com/landing"}}

\* response.ok
Ok(response) == response.status \in 200..299

\* The documents a response body parses to.
Bodies == {Edit(base, <<"title", "", v>>) : base \in BaseDocs, v \in TitleValues}

RouteInit ==
    /\ query \in Queries
    /\ fetches = 0
    /\ upstream = undefined
    /\ sent = <<>>
    /\ doc = EmptyDoc
    /\ requestedUrl = ""
    /\ finalUrl = ""
    /\ now = 0
    /\ pc = "received"
    /\ result = undefined
    /\ NoClient
    /\ NoInvocation

\* The handler up to `await fetch(url, ...)`: 400 for a url that fails
\* validation, else the fetch is started.
Validate ==
    /\ pc = "received"
    /\ LET validation == urlSchema(query)
       IN  IF validation = undefined
           THEN /\ sent' = Append(sent, ErrorResponse(400, "Invalid URL"))
                /\ pc' = "done"
                /\ UNCHANGED <<requestedUrl, fetches>>
           ELSE /\ requestedUrl' = validation[1]
                /\ fetches' = fetches + 1
                /\ pc' = "fetching"
                /\ UNCHANGED sent
    /\ UNCHANGED <<doc, finalUrl, now, result, query, upstream>>
    /\ UNCHANGED <<client, serverless>>

\* FetchSettles going on to read the body whatever the status.
FetchSettlesIgnoringStatus ==
    /\ pc = "fetching"
    /\ \E outcome \in Upstreams :
         /\ upstream' = Some(outcome)
         /\ IF outcome.settled = "rejected"
            THEN /\ sent' = Append(sent, ErrorResponse(500, "Analysis error"))
                 /\ pc' = "done"
            ELSE /\ pc' = "reading"
                 /\ UNCHANGED sent
    /\ UNCHANGED <<doc, requestedUrl, finalUrl, now, result, query, fetches>>
    /\ UNCHANGED <<client, serverless>>

\* fetch settles: a rejection is caught and answered 500; a response that
\* is not ok is answered with its status; an ok response is read.
FetchSettles ==
    /\ pc = "fetching"
    /\ \E outcome \in Upstreams :
         /\ upstream' = Some(outcome)
         /\ IF outcome.settled = "rejected"
            THEN /\ sent' = Append(sent, ErrorResponse(500, "Analysis error"))
                 /\ pc' = "done"
            ELSE IF ~Ok(outcome)
            THEN /\ sent' = Append(sent, ErrorResponse(outcome.status,
                                                       "Unable to fetch the page"))
                 /\ pc' = "done"
            ELSE /\ pc' = "reading"
                 /\ UNCHANGED sent
    /\ UNCHANGED <<doc, requestedUrl, finalUrl, now, result, query, fetches>>
    /\ UNCHANGED <<client, serverless>>

\* response.text() rejects: caught and answered 500.
TextRejects ==
    /\ pc = "reading"
    /\ upstream' = Some([upstream[1] EXCEPT !.text = "rejected"])
    /\ sent' = Append(sent, ErrorResponse(500, "Analysis error"))
    /\ pc' = "done"
    /\ UNCHANGED <<doc, requestedUrl, finalUrl, now, result, query, fetches>>
    /\ UNCHANGED <<client, serverless>>

\* response.text() gives the html: analyzeDocument(html, url, response.url)
\* is called and its analysis sent, or its exception caught and answered 500.
TextResolves ==
    /\ pc = "reading"
    /\ \E html \in Bodies : doc' = html
    /\ upstream' = Some([upstream[1] EXCEPT !.text = "read"])
    /\ finalUrl' = upstream[1].url
    /\ now' = now + 1
    /\ result' = analyzeDocument(doc', requestedUrl, finalUrl', now')
    /\ sent' = Append(sent, IF result' = Thrown
                            THEN ErrorResponse(500, "Analysis error")
                            ELSE AnalysisResponse(result'[1]))
    /\ pc' = "done"
    /\ UNCHANGED <<requestedUrl, query, fetches>>
    /\ UNCHANGED <<client, serverless>>

RouteNext == Validate \/ FetchSettles \/ TextRejects \/ TextResolves

RouteSpec == RouteInit /\ [][RouteNext]_vars

(***************************************************************************)
(* The client: App with handleAnalyze, UrlForm with handleSubmit, and      *)
(* analyzeUrl of src/lib/analyze.ts.  React applies the state updates of   *)
(* an event handler, and those of a continuation after an await, before    *)
(* the next event is handled: an action is the code between two awaits.    *)
(***************************************************************************)

MaxRequests == 2

\* What the engine and the Express route hold, which the client leaves alone.
engine == <<doc, requestedUrl, finalUrl, now, result, fetches, upstream>>

\* z.string().trim().url(): the trimmed input, where `new URL` accepts it.
clientUrlSchema(input) ==
    LET trimmed == trim(input)
    IN  IF ParseURL(trimmed, undefined) = Thrown THEN undefined ELSE Some(trimmed)

\* What the user types into the form.
Inputs ==
    {"", "not a url", "https://example.com/", Padded("https://example.org/dir/page")}

\* The analyses a server can answer with.
Reports ==
    {analyzeDocument(d, "https://example.com/start", "https://example.com/", 1)[1] :
        d \in {GoodDoc, MixedDoc}}

\* What reading a response's body as JSON gives: a rejection, an analysis, a
\* record with or without an error string, or a value that is not a record.
JsonBody(kind, report, text) == [kind |-> kind, report |-> report, error |-> text]

\* What fetch settles with: a rejection, an ok response, a response not ok.
Replies ==
    {[settled |-> "rejected", ok |-> FALSE, body |-> JsonBody("rejected", undefined, undefined)]}
        \cup {[settled |-> "fulfilled", ok |-> TRUE, body |-> body] :
                body \in {JsonBody("rejected", undefined, undefined)}
                            \cup {JsonBody("analysis", Some(r), undefined) : r \in Reports}}
        \cup {[settled |-> "fulfilled", ok |-> FALSE, body |-> body] :
                body \in {JsonBody("rejected", undefined, undefined),
                          JsonBody("value", undefined, undefined),
                          JsonBody("record", undefined, undefined),
                          JsonBody("record", undefined, Some("Invalid URL")),
                          JsonBody("record", undefined, Some("Unable to fetch the page"))}}

\* The message of handleAnalyze for an error that is not an AnalyzeError.
CouldNotFinish == "We could not finish the analysis. Please try again."

\* The rest of handleAnalyze once analyzeUrl has settled, for the call k:
\* setAnalysis(result) when it resolved with data, else the catch block's
\* setError(message); then the finally block's setIsLoading(false).
Settles(k, data, message) ==
    /\ requests' = SubSeq(requests, 1, k - 1) \o SubSeq(requests, k + 1, Len(requests))
    /\ isLoading' = FALSE
    /\ IF data # undefined
       THEN analysis' = data /\ UNCHANGED error
       ELSE error' = message /\ UNCHANGED analysis
    /\ UNCHANGED <<value, urlError>>
    /\ UNCHANGED <<engine, pc, query, sent, serverless>>

\* onChange of the input, which is disabled while isLoading.
Type ==
    /\ ~isLoading
    /\ \E v \in Inputs : value' = v
    /\ UNCHANGED <<analysis, isLoading, error, urlError, requests>>
    /\ UNCHANGED <<engine, pc, query, sent, serverless>>

\* Submit with the form's input and button never disabled.
SubmitWhileLoading ==
    /\ Len(requests) < MaxRequests
    /\ LET parsed == clientUrlSchema(value)
       IN  IF parsed = undefined
           THEN /\ urlError' = Some("Enter a valid URL.")
                /\ UNCHANGED <<isLoading, error, requests>>
           ELSE LET url == clientUrlSchema(parsed[1])
                IN  /\ urlError' = undefined
                    /\ isLoading' = (url # undefined)
                    /\ error' = IF url = undefined THEN Some(CouldNotFinish) ELSE undefined
                    /\ requests' = IF url = undefined THEN requests
                                   ELSE Append(requests, [url |-> url[1], reply |-> undefined])
    /\ UNCHANGED <<analysis, value>>
    /\ UNCHANGED <<engine, pc, query, sent, serverless>>

\* The form is submitted, which its disabled input and button allow only
\* while isLoading is false.  handleSubmit validates the input: a failure
\* shows the form's error; else onSubmit(parsed.data) runs handleAnalyze up
\* to `await fetch(...)`: setIsLoading(true), setError(undefined), and
\* analyzeUrl's own urlSchema.parse, whose exception would be caught.
Submit ==
    /\ ~isLoading
    /\ Len(requests) < MaxRequests
    /\ LET parsed == clientUrlSchema(value)
       IN  IF parsed = undefined
           THEN /\ urlError' = Some("Enter a valid URL.")
                /\ UNCHANGED <<isLoading, error, requests>>
           ELSE LET url == clientUrlSchema(parsed[1])
                IN  /\ urlError' = undefined
                    /\ isLoading' = (url # undefined)
                    /\ error' = IF url = undefined THEN Some(CouldNotFinish) ELSE undefined
                    /\ requests' = IF url = undefined THEN requests
                                   ELSE Append(requests, [url |-> url[1], reply |-> undefined])
    /\ UNCHANGED <<analysis, value>>
    /\ UNCHANGED <<engine, pc, query, sent, serverless>>

\* fetch settles for a call: a rejection ends handleAnalyze in its catch
\* block; a response is kept to have its body read.
ResponseArrives ==
    \E k \in 1..Len(requests), reply \in Replies :
        /\ requests[k].reply = undefined
        /\ IF reply.settled = "rejected"
           THEN Settles(k, undefined, Some(CouldNotFinish))
           ELSE /\ requests' = [requests EXCEPT ![k].reply = Some(reply)]
                /\ UNCHANGED <<analysis, isLoading, error, value, urlError>>
                /\ UNCHANGED <<engine, pc, query, sent, serverless>>

\* The body of a call's response has been read.  Of an ok response: the
\* data is the analysis, or response.json() rejects.  Of another response:
\* analyzeUrl throws an AnalyzeError with the payload's error string, or
\* with "Analysis failed." when safeJson gives no record with one.
BodyRead ==
    \E k \in 1..Len(requests) :
        /\ requests[k].reply # undefined
        /\ LET reply == requests[k].reply[1]
           IN  IF reply.ok
               THEN IF reply.body.kind = "rejected"
                    THEN Settles(k, undefined, Some(CouldNotFinish))
                    ELSE Settles(k, reply.body.report, undefined)
               ELSE IF reply.body.kind = "record" /\ reply.body.error # undefined
                    THEN Settles(k, undefined, reply.body.error)
                    ELSE Settles(k, undefined, Some("Analysis failed."))

AppInit ==
    /\ NoClient
    /\ doc = EmptyDoc
    /\ requestedUrl = ""
    /\ finalUrl = ""
    /\ now = 0
    /\ pc = "ready"
    /\ result = undefined
    /\ NoRequest
    /\ NoInvocation

AppNext == Type \/ Submit \/ ResponseArrives \/ BodyRead

AppSpec == AppInit /\ [][AppNext]_vars

(***************************************************************************)
(* The serverless function GET /api/analyze (src/api/analyze.ts).  It      *)
(* imports analyzeQuerySchema, analyzeUrl and mapAnalysisError from        *)
(* server/analysis-service.js: the schema and the error mapping are taken  *)
(* to be those of the Express route, and analyzeUrl is a call that         *)
(* resolves with an analysis or rejects with an error.                     *)
(***************************************************************************)

\* req.query['url']: a string, an array of strings, or nothing.
QueryValue(type, items) == [type |-> type, items |-> items]

QueryValues ==
    {QueryValue("undefined", <<>>), QueryValue("array", <<>>),
     QueryValue("array", <<"https://example.com/start", "not a url">>),
     QueryValue("array", <<"not a url", "https://example.com/start">>)}
        \cup {QueryValue("string", q) : q \in Queries \ {undefined}}

Methods == {"GET", "OPTIONS", "POST", "HEAD"}

normalizeQueryValue(v) ==
    IF v.type = "string" THEN Some(v.items[1])
    ELSE IF v.type = "array"
        THEN (IF v.items = <<>> THEN undefined ELSE Some(v.items[1]))
    ELSE undefined

\* The AnalyzeQuery: its url, if it has one.
toAnalyzeQuery(v) == normalizeQueryValue(v)

\* analyzeQuerySchema.safeParse(query): the data's url, or undefined for a
\* failure.
analyzeQuerySchema(q) == urlSchema(q)

\* The errors analyzeUrl rejects with: the page answered with a status that
\* is not ok, or anything else (a network error, a timeout, an exception).
AnalysisErrors ==
    {[kind |-> "upstream", status |-> st] : st \in {404, 503}}
        \cup {[kind |-> "other", status |-> 0]}

\* What analyzeUrl settles with.
Outcomes ==
    {[settled |-> "resolved", analysis |-> Some(r), error |-> undefined] : r \in Reports}
        \cup {[settled |-> "rejected", analysis |-> undefined, error |-> Some(e)] :
                e \in AnalysisErrors}

\* mapAnalysisError(error): the statusCode and the payload's error.
mapAnalysisError(e) ==
    IF e.kind = "upstream"
    THEN [statusCode |-> e.status, payload |-> "Unable to fetch the page"]
    ELSE [statusCode |-> 500, payload |-> "Analysis error"]

allowOrigin == "*"

\* The headers applyCors sets.
applyCors ==
    {<<"Access-Control-Allow-Origin", allowOrigin>>,
     <<"Access-Control-Allow-Methods", "GET,OPTIONS">>,
     <<"Access-Control-Allow-Headers", "Content-Type">>,
     <<"Access-Control-Max-Age", "86400">>}

\* A response as it leaves: with the headers set so far.
Send(response, set) ==
    [status |-> response.status, error |-> response.error,
     analysis |-> response.analysis, headers |-> set]

\* res.status(204).end()
NoContent == [status |-> 204, error |-> undefined, analysis |-> undefined]

HandlerInit ==
    /\ \E m \in Methods, q \in QueryValues : req = Some([method |-> m, query |-> q])
    /\ headers = {}
    /\ invoked = <<>>
    /\ analyzed = undefined
    /\ pc = "received"
    /\ sent = <<>>
    /\ query = undefined
    /\ fetches = 0
    /\ upstream = undefined
    /\ doc = EmptyDoc
    /\ requestedUrl = ""
    /\ finalUrl = ""
    /\ now = 0
    /\ result = undefined
    /\ NoClient

\* Handler answering before it has set the CORS headers, which it sets only
\* once it goes on to analyzeUrl.
HandlerCorsLate ==
    /\ pc = "received"
    /\ LET validation == analyzeQuerySchema(toAnalyzeQuery(req[1].query))
       IN  IF req[1].method = "OPTIONS"
           THEN /\ sent' = Append(sent, Send(NoContent, headers))
                /\ pc' = "done"
                /\ UNCHANGED <<invoked, query, headers>>
           ELSE IF req[1].method # "GET"
           THEN /\ sent' = Append(sent, Send(ErrorResponse(405, "Method not allowed"),
                                             headers))
                /\ pc' = "done"
                /\ UNCHANGED <<invoked, query, headers>>
           ELSE IF validation = undefined
           THEN /\ query' = toAnalyzeQuery(req[1].query)
                /\ sent' = Append(sent, Send(ErrorResponse(400, "Invalid URL"), headers))
                /\ pc' = "done"
                /\ UNCHANGED <<invoked, headers>>
           ELSE /\ headers' = headers \cup applyCors
                /\ query' = toAnalyzeQuery(req[1].query)
                /\ invoked' = Append(invoked, validation[1])
                /\ pc' = "awaiting"
                /\ UNCHANGED sent
    /\ UNCHANGED <<req, analyzed>>
    /\ UNCHANGED <<engine, client>>

\* The handler up to `await analyzeUrl(...)`: the CORS headers, then 204
\* for OPTIONS, 405 for another method that is not GET, 400 for a query that
\* fails validation, else analyzeUrl is called with the validated url.
Handler ==
    /\ pc = "received"
    /\ headers' = headers \cup applyCors
    /\ LET validation == analyzeQuerySchema(toAnalyzeQuery(req[1].query))
       IN  IF req[1].method = "OPTIONS"
           THEN /\ sent' = Append(sent, Send(NoContent, headers'))
                /\ pc' = "done"
                /\ UNCHANGED <<invoked, query>>
           ELSE IF req[1].method # "GET"
           THEN /\ sent' = Append(sent, Send(ErrorResponse(405, "Method not allowed"),
                                             headers'))
                /\ pc' = "done"
                /\ UNCHANGED <<invoked, query>>
           ELSE IF validation = undefined
           THEN /\ query' = toAnalyzeQuery(req[1].query)
                /\ sent' = Append(sent, Send(ErrorResponse(400, "Invalid URL"), headers'))
                /\ pc' = "done"
                /\ UNCHANGED invoked
           ELSE /\ query' = toAnalyzeQuery(req[1].query)
                /\ invoked' = Append(invoked, validation[1])
                /\ pc' = "awaiting"
                /\ UNCHANGED sent
    /\ UNCHANGED <<req, analyzed>>
    /\ UNCHANGED <<engine, client>>

\* analyzeUrl settles: its analysis is sent with status 200, or its error is
\* caught and answered with mapAnalysisError's status and payload.
AnalyzeUrlSettles ==
    /\ pc = "awaiting"
    /\ \E o \in Outcomes :
         /\ analyzed' = Some(o)
         /\ sent' = Append(sent,
                IF o.settled = "resolved"
                THEN Send(AnalysisResponse(o.analysis[1]), headers)
                ELSE Send(ErrorResponse(mapAnalysisError(o.error[1]).statusCode,
                                        mapAnalysisError(o.error[1]).payload), headers))
    /\ pc' = "done"
    /\ UNCHANGED <<req, headers, invoked, query>>
    /\ UNCHANGED <<engine, client>>

HandlerNext == Handler \/ AnalyzeUrlSettles

HandlerSpec == HandlerInit /\ [][HandlerNext]_vars

(***************************************************************************)
(* What the claims read                                                    *)
(***************************************************************************)

\* The analysis the latest call returned.
Analysis == result[1]

\* Every TagResult of an analysis, in section and tag order.
AllTags(a) == Flat([i \in 1..Len(a.sections) |-> a.sections[i].tags])

Scores(items) == [i \in 1..Len(items) |-> items[i].score]

Statuses(items) == {items[i].status : i \in 1..Len(items)}

\* r is the mean sum/n rounded to the nearest integer, a half rounded up:
\* r - 1/2 <= sum/n < r + 1/2.
IsHalfUpMean(r, sum, n) ==
    /\ (2 * n * r) - n <= 2 * sum
    /\ 2 * sum < (2 * n * r) + n

\* The worst of a set of statuses: error over warning over ok.
Worst(statuses) ==
    IF "error" \in statuses THEN "error"
    ELSE IF "warning" \in statuses THEN "warning"
    ELSE "ok"

\* C1: in every analysis each section's score is the round-half-up integer
\* mean of its tags' scores, summary.overallScore is the round-half-up
\* integer mean of the three section scores, and summary.sectionScores[id]
\* is the score of the section with that id.
C1_ScoresAreHalfUpMeans ==
    pc = "returned" =>
        LET a == Analysis
        IN  /\ \A i \in 1..Len(a.sections) :
                 /\ IsHalfUpMean(a.sections[i].score,
                                 SumSeq(Scores(a.sections[i].tags)),
                                 Len(a.sections[i].tags))
                 /\ a.summary.sectionScores[a.sections[i].id] = a.sections[i].score
            /\ Len(a.sections) = 3
            /\ IsHalfUpMean(a.summary.overallScore, SumSeq(Scores(a.sections)), 3)

\* An analysis with a section whose mean lies exactly half way between two
\* integers, and a section whose mean is not an integer either.
C1_Witness ==
    /\ pc = "returned"
    /\ \E i \in 1..Len(Analysis.sections) :
         LET tags == Analysis.sections[i].tags
         IN  (2 * SumSeq(Scores(tags))) % (2 * Len(tags)) = Len(tags)
    /\ SumSeq(Scores(Analysis.sections)) % 3 # 0

\* C2: in every analysis each section.status is the worst status among the
\* section's tags and summary.status is the worst status among the three
\* sections, error over warning over ok.
C2_StatusIsWorst ==
    pc = "returned" =>
        LET a == Analysis
        IN  /\ \A i \in 1..Len(a.sections) :
                 a.sections[i].status = Worst(Statuses(a.sections[i].tags))
            /\ a.summary.status = Worst(Statuses(a.sections))

\* An analysis whose summary is error while a section is only warning and
\* another section holds an error beside a warning.
C2_Witness ==
    /\ pc = "returned"
    /\ Analysis.summary.status = "error"
    /\ \E i \in 1..Len(Analysis.sections) : Analysis.sections[i].status = "warning"
    /\ \E i \in 1..Len(Analysis.sections) :
         {"error", "warning"} \subseteq Statuses(Analysis.sections[i].tags)

\* C3: in every analysis the issues hold exactly one SeoIssue for each tag
\* result that is not ok and none for an ok one, each issue's severity is
\* its tag's status, and every error issue precedes every warning issue.
C3_IssuesAreTheNonOkTags ==
    pc = "returned" =>
        LET a == Analysis
            issues == a.issues
            IssuesFor(section, tag) ==
                {k \in 1..Len(issues) :
                    issues[k].section = section.id /\ issues[k].tag = tag.label}
        IN  /\ \A i \in 1..Len(a.sections) : \A j \in 1..Len(a.sections[i].tags) :
                 LET section == a.sections[i]
                     tag == section.tags[j]
                 IN  IF tag.status = "ok"
                     THEN IssuesFor(section, tag) = {}
                     ELSE /\ Cardinality(IssuesFor(section, tag)) = 1
                          /\ \A k \in IssuesFor(section, tag) :
                               /\ issues[k].severity = tag.status
                               /\ issues[k].message = tag.message
            /\ Len(issues) = Cardinality({k \in 1..Len(AllTags(a)) :
                                            AllTags(a)[k].status # "ok"})
            /\ \A k \in 1..Len(issues) : \A l \in (k + 1)..Len(issues) :
                 ~(issues[k].severity = "warning" /\ issues[l].severity = "error")

\* An analysis in which a warning tag comes before an error tag in section
\* and tag order, so that the sort has moved an issue, and an ok tag exists.
C3_Witness ==
    /\ pc = "returned"
    /\ \E k \in 1..Len(AllTags(Analysis)) : \E l \in (k + 1)..Len(AllTags(Analysis)) :
         /\ AllTags(Analysis)[k].status = "warning"
         /\ AllTags(Analysis)[l].status = "error"
    /\ \E k \in 1..Len(AllTags(Analysis)) : AllTags(Analysis)[k].status = "ok"

\* C4: in every analysis `missing` is, without duplicates and in first-seen
\* section and tag order, exactly the labels of the tag results that are
\* error and have no value; an error tag that has a value is never listed.
C4_MissingAreTheAbsentErrors ==
    pc = "returned" =>
        LET a == Analysis
            tags == AllTags(a)
            missing == a.missing
            Absent == {k \in 1..Len(tags) :
                          tags[k].status = "error" /\ tags[k].value = undefined}
        IN  /\ \A k \in 1..Len(missing) : \A l \in 1..Len(missing) :
                 k # l => missing[k] # missing[l]
            /\ {missing[k] : k \in 1..Len(missing)} = {tags[k].label : k \in Absent}
            /\ \A k \in 1..Len(missing) : \A l \in (k + 1)..Len(missing) :
                 \E m \in Absent : \E n \in Absent :
                    m < n /\ tags[m].label = missing[k] /\ tags[n].label = missing[l]
            /\ \A k \in 1..Len(tags) :
                 tags[k].status = "error" /\ tags[k].value # undefined =>
                    \A l \in 1..Len(missing) : missing[l] # tags[k].label

\* An analysis with an absent meta description, listed, beside a present but
\* unresolvable og:image, an error that is not listed.
C4_Witness ==
    /\ pc = "returned"
    /\ doc.meta["description"] = undefined
    /\ \E k \in 1..Len(Analysis.missing) : Analysis.missing[k] = "Meta Description"
    /\ \E k \in 1..Len(AllTags(Analysis)) :
         /\ AllTags(Analysis)[k].label = "OG Image"
         /\ AllTags(Analysis)[k].status = "error"
         /\ AllTags(Analysis)[k].value # undefined

\* The TagResult of an analysis with the given tag identifier.
TagOf(a, tag) ==
    LET tags == AllTags(a)
    IN  tags[CHOOSE k \in 1..Len(tags) : tags[k].tag = tag]

\* The tracked elements of a document, and what the document holds for each.
Elements ==
    {<<"title", "">>, <<"canonical", "">>}
        \cup {<<"meta", name>> : name \in MetaNames}
        \cup {<<"property", property>> : property \in Properties}

Raw(d, e) ==
    CASE e[1] = "title" -> d.title
      [] e[1] = "canonical" -> d.canonical
      [] e[1] = "meta" -> d.meta[e[2]]
      [] e[1] = "property" -> d.property[e[2]]

Remove(d, e) == Edit(d, <<e[1], e[2], undefined>>)

\* The element a TagResult's tag identifier stands for.
ElementOf(tag) ==
    CASE tag = "title" -> <<"title", "">>
      [] tag = "link[rel=\"canonical\"]" -> <<"canonical", "">>
      [] tag = "og:url" -> <<"property", "og:url">>
      [] tag = "meta[name=\"description\"]" -> <<"meta", "description">>
      [] tag = "meta[name=\"keywords\"]" -> <<"meta", "keywords">>
      [] tag = "meta[name=\"robots\"]" -> <<"meta", "robots">>
      [] tag = "meta[name=\"twitter:card\"]" -> <<"meta", "twitter:card">>
      [] tag = "meta[name=\"twitter:title\"]" -> <<"meta", "twitter:title">>
      [] tag = "meta[name=\"twitter:description\"]" -> <<"meta", "twitter:description">>
      [] tag = "meta[name=\"twitter:image\"]" -> <<"meta", "twitter:image">>
      [] tag = "meta[property=\"og:title\"]" -> <<"property", "og:title">>
      [] tag = "meta[property=\"og:description\"]" -> <<"property", "og:description">>
      [] tag = "meta[property=\"og:image\"]" -> <<"property", "og:image">>
      [] tag = "meta[property=\"og:type\"]" -> <<"property", "og:type">>

\* An element that is not in the document, or whose value is empty or only
\* white space.
IsAbsent(v) == v = undefined \/ trim(v[1]) = ""

IsBlank(v) == v # undefined /\ trim(v[1]) = ""

\* A value that is there and that `new URL(value, base)` rejects.
IsUnparseable(v, base) == ~IsAbsent(v) /\ ParseURL(trim(v[1]), Some(base)) = Thrown

\* C5: analyzeDocument never throws: for every document and every pair
\* (requestedUrl, finalUrl), a finalUrl that does not parse included, a call
\* returns a complete SeoAnalysis.
C5_NeverThrows ==
    now > 0 =>
        /\ pc = "returned"
        /\ result # undefined
        /\ Len(Analysis.sections) = 3

\* C6, as claimed: a page without a canonical link has a Canonical tag
\* result of status warning and score 0.
C6_MissingCanonicalScoresZero ==
    pc = "returned" /\ doc.canonical = undefined =>
        /\ TagOf(Analysis, "link[rel=\"canonical\"]").status = "warning"
        /\ TagOf(Analysis, "link[rel=\"canonical\"]").score = 0

\* C6, amended: a page without a canonical link has a Canonical tag result
\* of status warning and score 50, and the meta section's score is the
\* round-half-up mean of this 50 and the four other meta tags' scores.
C6_MissingCanonicalScoresFifty ==
    pc = "returned" /\ doc.canonical = undefined =>
        LET a == Analysis
            canonical == TagOf(a, "link[rel=\"canonical\"]")
            others == SelectSeq(a.sections[1].tags,
                                LAMBDA tag : tag.tag # "link[rel=\"canonical\"]")
        IN  /\ canonical.status = "warning"
            /\ canonical.score = 50
            /\ canonical.value = undefined
            /\ Len(others) = 4
            /\ IsHalfUpMean(a.sections[1].score, SumSeq(Scores(others)) + 50, 5)

\* An analysis of a page without a canonical link.
C6_Witness ==
    /\ pc = "returned"
    /\ doc.canonical = undefined
    /\ TagOf(Analysis, "link[rel=\"canonical\"]").message = "Canonical not found."

\* C7: a canonical href that is present and cannot be resolved gives a
\* Canonical tag result of status error and score 10 with a message of its
\* own, not the one of a missing canonical.
C7_UnresolvableCanonicalIsError ==
    pc = "returned" /\ IsUnparseable(doc.canonical, BaseUrl(requestedUrl, finalUrl)) =>
        LET canonical == TagOf(Analysis, "link[rel=\"canonical\"]")
        IN  /\ canonical.status = "error"
            /\ canonical.score = 10
            /\ canonical.message # "Canonical not found."

\* C8: an element whose value is empty or only white space gets the verdict
\* it gets when it is not in the document at all: the sections are those of
\* the document without the element.
C8_BlankIsAbsent ==
    pc = "returned" =>
        \A e \in Elements :
            IsBlank(Raw(doc, e)) =>
                Analysis.sections
                    = Sections(Remove(doc, e), BaseUrl(requestedUrl, finalUrl))

\* The tags whose absence is an error.
CriticalTags ==
    {"title", "meta[name=\"description\"]", "meta[property=\"og:title\"]",
     "meta[property=\"og:description\"]", "meta[property=\"og:image\"]",
     "meta[name=\"twitter:title\"]", "meta[name=\"twitter:description\"]"}

\* C9: every TagResult is error only for an absent critical tag or for a
\* present value that does not parse, and its score is 0..10 when error,
\* 40..65 when warning and 80..95 when ok.
C9_StatusAndScoreRanges ==
    pc = "returned" =>
        LET tags == AllTags(Analysis)
        IN  \A k \in 1..Len(tags) :
                LET t == tags[k]
                    raw == Raw(doc, ElementOf(t.tag))
                IN  /\ t.status = "error" =>
                         \/ t.tag \in CriticalTags /\ IsAbsent(raw) /\ t.value = undefined
                         \/ /\ IsUnparseable(raw, BaseUrl(requestedUrl, finalUrl))
                            /\ t.value # undefined
                    /\ t.status = "error" => t.score \in 0..10
                    /\ t.status = "warning" => t.score \in 40..65
                    /\ t.status = "ok" => t.score \in 80..95
                    /\ t.status \in {"error", "warning", "ok"}

\* An analysis with an absent critical tag, a present value that does not
\* parse, a warning and an ok.
C9_Witness ==
    /\ pc = "returned"
    /\ \E k \in 1..Len(AllTags(Analysis)) :
         AllTags(Analysis)[k].status = "error" /\ AllTags(Analysis)[k].score = 0
    /\ \E k \in 1..Len(AllTags(Analysis)) :
         AllTags(Analysis)[k].status = "error" /\ AllTags(Analysis)[k].score = 10
    /\ \E k \in 1..Len(AllTags(Analysis)) : AllTags(Analysis)[k].status = "warning"
    /\ \E k \in 1..Len(AllTags(Analysis)) : AllTags(Analysis)[k].status = "ok"

\* The two-sided length rules: the tag, its label, the window and the score
\* of a value inside the window.
LengthRules ==
    {[tag |-> "title", label |-> "Title", min |-> 30, max |-> 70, score |-> 95],
     [tag |-> "meta[name=\"description\"]", label |-> "Meta Description",
      min |-> 70, max |-> 160, score |-> 95],
     [tag |-> "meta[property=\"og:title\"]", label |-> "OG Title",
      min |-> 30, max |-> 95, score |-> 95],
     [tag |-> "meta[property=\"og:description\"]", label |-> "OG Description",
      min |-> 80, max |-> 200, score |-> 90]}

\* C10: title, description, og:title and og:description are ok with the
\* rule's score for a length inside the window, bounds included; a present
\* value outside it is warning/60 with the length in the message; an absent
\* value is error/0 "not found"; the length field is the value's length; and
\* the title "Short" gives "Title length is 5 characters -- aim for 50-60.".
C10_LengthRules ==
    pc = "returned" =>
        /\ \A rule \in LengthRules :
             LET t == TagOf(Analysis, rule.tag)
                 raw == Raw(doc, ElementOf(rule.tag))
                 n == Len(trim(raw[1]))
             IN  IF IsAbsent(raw)
                 THEN /\ t.status = "error" /\ t.score = 0
                      /\ t.value = undefined /\ t.length = undefined
                      /\ t.message = rule.label \o " not found."
                 ELSE /\ t.value = Some(trim(raw[1]))
                      /\ t.length = Some(Len(t.value[1]))
                      /\ t.message # rule.label \o " not found."
                      /\ IF rule.min <= n /\ n <= rule.max
                         THEN t.status = "ok" /\ t.score = rule.score
                         ELSE /\ t.status = "warning" /\ t.score = 60
                              /\ includes(t.message, " " \o NumberToString(n) \o " characters")
        /\ doc.title = Some("Short") =>
             /\ TagOf(Analysis, "title").status = "warning"
             /\ TagOf(Analysis, "title").score = 60
             /\ TagOf(Analysis, "title").message
                    = "Title length is 5 characters -- aim for 50-60."

\* An analysis of a page whose title is "Short".
C10_Witness ==
    /\ pc = "returned"
    /\ doc.title = Some("Short")
    /\ TagOf(Analysis, "title").length = Some(5)

\* An absolute URL, as a special URL serializes: its scheme, "://", a host.
IsAbsoluteUrl(s) ==
    \E scheme \in SpecialSchemes :
        startsWith(s, scheme \o "://") /\ Len(s) > Len(scheme) + 3

\* C11: an absent og:image is error/0 without a value; a present og:image
\* that resolves against the base URL is ok/95 with the resolved absolute
\* URL as value ("/img.png" on https://example.com/ gives
\* https://example.com/img.png); a present og:image that does not resolve is
\* error/10 with the extracted value kept, and the call returns or throws
\* exactly as it does on the page without the og:image.
C11_OpenGraphImageRule ==
    LET raw == doc.property["og:image"]
        base == BaseUrl(requestedUrl, finalUrl)
        resolved == ParseURL(trim(raw[1]), Some(base))
    IN  /\ pc = "returned" =>
             LET t == TagOf(Analysis, "meta[property=\"og:image\"]")
             IN  IF IsAbsent(raw)
                 THEN t.status = "error" /\ t.score = 0 /\ t.value = undefined
                 ELSE IF resolved = Thrown
                 THEN /\ t.status = "error" /\ t.score = 10
                      /\ t.value = Some(trim(raw[1]))
                      /\ t.message = "Invalid URL in og:image."
                 ELSE /\ t.status = "ok" /\ t.score = 95
                      /\ t.value = Some(URLToString(resolved[1]))
                      /\ IsAbsoluteUrl(t.value[1])
                      /\ (raw = Some("/img.png") /\ finalUrl = "https://example.com/"
                            => t.value = Some("https://example.com/img.png"))
        /\ now > 0 /\ ~IsAbsent(raw) /\ resolved = Thrown =>
             (pc = "threw") =
                (analyzeDocument(Remove(doc, <<"property", "og:image">>),
                                 requestedUrl, finalUrl, now) = Thrown)

\* An analysis of a page whose og:image is there and does not resolve.
C11_Witness ==
    /\ pc = "returned"
    /\ IsUnparseable(doc.property["og:image"], BaseUrl(requestedUrl, finalUrl))
    /\ TagOf(Analysis, "meta[property=\"og:image\"]").score = 10
    /\ Len(Analysis.issues) > 0

\* The card types the twitter:card rule accepts.
StandardCards == {"summary", "summary_large_image"}

\* C12: an absent twitter:card is warning/55; a value that is, letter case
\* aside, summary or summary_large_image is ok/85 with the lowercase value;
\* any other value is warning/60 with the message "Non-standard twitter:card
\* value -- <value>." and previews.twitter.card is that value as extracted,
\* neither lowercased nor replaced by the default.
C12_TwitterCardRule ==
    pc = "returned" =>
        LET raw == doc.meta["twitter:card"]
            t == TagOf(Analysis, "meta[name=\"twitter:card\"]")
            card == Analysis.previews.twitter.card
        IN  /\ IF IsAbsent(raw)
               THEN t.status = "warning" /\ t.score = 55 /\ t.value = undefined
               ELSE IF toLowerCase(trim(raw[1])) \in StandardCards
               THEN /\ t.status = "ok" /\ t.score = 85
                    /\ t.value = Some(toLowerCase(trim(raw[1])))
                    /\ t.value[1] \in StandardCards
               ELSE /\ t.status = "warning" /\ t.score = 60
                    /\ t.value = Some(trim(raw[1]))
                    /\ t.message
                         = "Non-standard twitter:card value -- " \o trim(raw[1]) \o "."
                    /\ card = trim(raw[1])
            /\ raw = Some("Summary_Large_Image") =>
                 t.status = "ok" /\ t.value = Some("summary_large_image")
            /\ raw = Some("photo") =>
                 /\ t.message = "Non-standard twitter:card value -- photo."
                 /\ card = "photo"
            /\ raw = Some(Padded("Player")) =>
                 /\ t.message = "Non-standard twitter:card value -- Player."
                 /\ card = "Player"

\* An analysis of a page whose twitter:card is "photo".
C12_Witness ==
    /\ pc = "returned"
    /\ doc.meta["twitter:card"] = Some("photo")
    /\ TagOf(Analysis, "meta[name=\"twitter:card\"]").score = 60
    /\ Analysis.previews.twitter.card = "photo"

\* C13: a canonical href that resolves against the base URL gives a
\* Canonical tag result of status ok and score 90 whose value is the
\* absolute resolved URL; "/about" on https://example.com/ gives
\* https://example.com/about.
C13_ResolvableCanonicalIsOk ==
    pc = "returned" =>
        LET raw == doc.canonical
            base == BaseUrl(requestedUrl, finalUrl)
            resolved == ParseURL(raw[1], Some(base))
            t == TagOf(Analysis, "link[rel=\"canonical\"]")
        IN  /\ Truthy(raw) /\ resolved # Thrown =>
                 /\ t.status = "ok"
                 /\ t.score = 90
                 /\ t.value = Some(URLToString(resolved[1]))
                 /\ IsAbsoluteUrl(t.value[1])
            /\ raw = Some("/about") /\ finalUrl = "https://example.com/" =>
                 /\ t.value = Some("https://example.com/about")
                 /\ t.status = "ok"
                 /\ t.score = 90
            /\ raw = Some("../up") /\ base = ParseURL("https://example.org/dir/page",
                                                      undefined)[1] =>
                 t.value = Some("https://example.org/up")

\* An analysis of a page whose canonical href is "/about", fetched from
\* https://example.com/.
C13_Witness ==
    /\ pc = "returned"
    /\ doc.canonical = Some("/about")
    /\ finalUrl = "https://example.com/"
    /\ TagOf(Analysis, "link[rel=\"canonical\"]").value = Some("https://example.com/about")

\* What extraction leaves of an element: its trimmed text, or undefined when
\* the element is absent or blank.
Extracted(v) == IF IsAbsent(v) THEN undefined ELSE Some(trim(v[1]))

\* The first of the given optional values that is there, else the literal.
FirstOf(options, literal) ==
    LET there == SelectSeq(options, LAMBDA v : v # undefined)
    IN  IF there = <<>> THEN literal ELSE there[1][1]

\* The host names of the base URLs of the (requestedUrl, finalUrl) pairs:
\* finalUrl's when it parses, else requestedUrl's, else example.com.
ExpectedHostname ==
    CASE finalUrl = "https://example.com/" -> "example.com"
      [] finalUrl = "https://www.example.com" -> "www.example.com"
      [] finalUrl = "not a url" -> "example.org"
      [] finalUrl = "" -> "example.com"

\* C14: previews.google.title is the page title if the page has one, else
\* og:title if it has one, else "Preview"; description is the meta
\* description, else og:description, else the empty string; url is finalUrl;
\* domain is the host name of the base URL.  A title of 27 characters, which
\* fails its length rule, is used when og:title is absent.
C14_GooglePreview ==
    pc = "returned" =>
        LET google == Analysis.previews.google
            title == Extracted(doc.title)
            ogTitle == Extracted(doc.property["og:title"])
            description == Extracted(doc.meta["description"])
            ogDescription == Extracted(doc.property["og:description"])
        IN  /\ google.title = FirstOf(<<title, ogTitle>>, "Preview")
            /\ google.description = FirstOf(<<description, ogDescription>>, "")
            /\ google.url = finalUrl
            /\ google.domain = ExpectedHostname
            /\ google.domain = hostname(BaseUrl(requestedUrl, finalUrl))
            /\ doc.title = Some("My Great Page Title Example") /\ ogTitle = undefined =>
                 /\ google.title = "My Great Page Title Example"
                 /\ TagOf(Analysis, "title").status = "warning"

\* An analysis of a page titled "My Great Page Title Example" without
\* og:title, and without any description.
C14_Witness ==
    /\ pc = "returned"
    /\ doc.title = Some("My Great Page Title Example")
    /\ IsAbsent(doc.property["og:title"])
    /\ Analysis.previews.google.title = "My Great Page Title Example"
    /\ Analysis.previews.google.description = ""

\* C15: previews.openGraph.title and .description are the og:title and
\* og:description values when present and otherwise the google preview's
\* title and description; the image is omitted when the page has no og:image
\* and is the og:image tag's value otherwise; url is the resolved og:url
\* when the page has one that resolves and otherwise finalUrl; siteName is
\* the base URL's host name.  Every call gives such a preview.
C15_OpenGraphPreview ==
    now > 0 =>
        /\ pc = "returned"
        /\ LET og == Analysis.previews.openGraph
               google == Analysis.previews.google
               base == BaseUrl(requestedUrl, finalUrl)
               ogTitle == Extracted(doc.property["og:title"])
               ogDescription == Extracted(doc.property["og:description"])
               ogImage == Extracted(doc.property["og:image"])
               ogUrl == Extracted(doc.property["og:url"])
           IN  /\ og.title = FirstOf(<<ogTitle>>, google.title)
               /\ og.description = FirstOf(<<ogDescription>>, google.description)
               /\ (og.image = undefined) = (ogImage = undefined)
               /\ og.image = TagOf(Analysis, "meta[property=\"og:image\"]").value
               /\ og.url = IF ogUrl # undefined /\ ParseURL(ogUrl[1], Some(base)) # Thrown
                           THEN URLToString(ParseURL(ogUrl[1], Some(base))[1])
                           ELSE finalUrl
               /\ og.siteName = ExpectedHostname

\* C16: previews.twitter.title and .description are the twitter:title and
\* twitter:description values when present and otherwise the google
\* preview's; image is the resolved twitter:image when the page has one that
\* resolves, otherwise the Open Graph preview's image, otherwise omitted;
\* card is the twitter:card tag's value when present and the literal
\* summary_large_image when absent.
C16_TwitterPreview ==
    pc = "returned" =>
        LET twitter == Analysis.previews.twitter
            google == Analysis.previews.google
            base == BaseUrl(requestedUrl, finalUrl)
            twitterTitle == Extracted(doc.meta["twitter:title"])
            twitterDescription == Extracted(doc.meta["twitter:description"])
            twitterImage == Extracted(doc.meta["twitter:image"])
            twitterCard == Extracted(doc.meta["twitter:card"])
        IN  /\ twitter.title = FirstOf(<<twitterTitle>>, google.title)
            /\ twitter.description = FirstOf(<<twitterDescription>>, google.description)
            /\ twitter.image =
                 IF twitterImage # undefined /\ ParseURL(twitterImage[1], Some(base)) # Thrown
                 THEN Some(URLToString(ParseURL(twitterImage[1], Some(base))[1]))
                 ELSE Analysis.previews.openGraph.image
            /\ (twitter.image = undefined) =>
                 Extracted(doc.property["og:image"]) = undefined
            /\ IF twitterCard = undefined
               THEN twitter.card = "summary_large_image"
               ELSE /\ twitter.card = TagOf(Analysis, "meta[name=\"twitter:card\"]").value[1]
                    /\ toLowerCase(twitter.card) = toLowerCase(twitterCard[1])

\* An analysis of a page without a twitter:image that resolves and without
\* twitter:card, whose og:image becomes the Twitter preview's image.
C16_Witness ==
    /\ pc = "returned"
    /\ TagOf(Analysis, "meta[name=\"twitter:image\"]").value = undefined
    /\ Analysis.previews.twitter.image # undefined
    /\ Analysis.previews.twitter.image = Analysis.previews.openGraph.image
    /\ IsAbsent(doc.meta["twitter:card"])
    /\ Analysis.previews.twitter.card = "summary_large_image"

\* The url query parameters that are http(s) URLs.
HttpQueries ==
    {Some("https://example.com/start"), Some(Padded("http://example.com")),
     Some("HTTP://Example.com/a")}

\* The one response sent is an error response of this status and text.
Answered(status, text) ==
    /\ Len(sent) = 1
    /\ sent[1].status = status
    /\ sent[1].error = Some(text)
    /\ sent[1].analysis = undefined

\* C17: in the route /api/analyze a url query that is not an http(s) URL
\* is answered 400 "Invalid URL" without a fetch; a response that is not 2xx
\* is answered with its status and "Unable to fetch the page", and a fetch
\* or body read that fails is answered 500 "Analysis error", both without a
\* call of analyzeDocument; analyzeDocument is called only once a 2xx
\* response's body has been read; and a request never has two responses
\* and has exactly one when its handler is done.
C17_EngineOnlyAfterBodyRead ==
    /\ pc \in {"received", "fetching", "reading", "done"}
    /\ Len(sent) <= 1
    /\ (pc = "done") = (Len(sent) = 1)
    /\ fetches <= 1
    /\ now <= 1
    /\ query \notin HttpQueries =>
         /\ fetches = 0
         /\ now = 0
         /\ pc = "done" => Answered(400, "Invalid URL")
    /\ query \in HttpQueries /\ pc # "received" => fetches = 1
    /\ upstream # undefined /\ upstream[1].settled = "rejected" =>
         now = 0 /\ Answered(500, "Analysis error")
    /\ upstream # undefined /\ upstream[1].settled = "fulfilled"
            /\ upstream[1].status \notin 200..299 =>
         now = 0 /\ Answered(upstream[1].status, "Unable to fetch the page")
    /\ upstream # undefined /\ upstream[1].text = "rejected" =>
         now = 0 /\ Answered(500, "Analysis error")
    /\ now > 0 =>
         /\ fetches = 1
         /\ upstream # undefined
         /\ upstream[1].settled = "fulfilled"
         /\ upstream[1].status \in 200..299
         /\ upstream[1].text = "read"
         /\ Len(sent) = 1
         /\ sent[1].analysis = result

\* A request answered 404 with no call of analyzeDocument.
C17_Witness ==
    /\ pc = "done"
    /\ query \in HttpQueries
    /\ upstream # undefined
    /\ upstream[1].status = 404
    /\ now = 0
    /\ Answered(404, "Unable to fetch the page")

SectionOrder == <<"meta", "openGraph", "twitter">>

TagOrder ==
    <<<<"title", "meta[name=\"description\"]", "meta[name=\"keywords\"]",
        "link[rel=\"canonical\"]", "meta[name=\"robots\"]">>,
      <<"meta[property=\"og:title\"]", "meta[property=\"og:description\"]",
        "meta[property=\"og:image\"]", "og:url", "meta[property=\"og:type\"]">>,
      <<"meta[name=\"twitter:card\"]", "meta[name=\"twitter:title\"]",
        "meta[name=\"twitter:description\"]", "meta[name=\"twitter:image\"]">>>>

\* C19: every analysis has exactly the three sections meta, openGraph and
\* twitter, in this order, and their tags are, in this order, (title,
\* description, keywords, canonical, robots), (og:title, og:description,
\* og:image, og:url, og:type) and (twitter:card, twitter:title,
\* twitter:description, twitter:image): 5, 5 and 4 tag results whatever the
\* page holds.
C19_FixedSectionAndTagOrder ==
    pc = "returned" =>
        LET sections == Analysis.sections
        IN  /\ Len(sections) = 3
            /\ [i \in 1..3 |-> sections[i].id] = SectionOrder
            /\ \A i \in 1..3 :
                 [j \in 1..Len(sections[i].tags) |-> sections[i].tags[j].tag] = TagOrder[i]
            /\ [i \in 1..3 |-> Len(sections[i].tags)] = <<5, 5, 4>>

\* An analysis of a page on which tags are absent, one value does not
\* resolve, and other tags are fine.
C19_Witness ==
    /\ pc = "returned"
    /\ IsAbsent(doc.property["og:description"])
    /\ IsAbsent(doc.canonical)
    /\ IsUnparseable(doc.property["og:image"], BaseUrl(requestedUrl, finalUrl))
    /\ TagOf(Analysis, "meta[property=\"og:title\"]").status = "ok"
    /\ Len(AllTags(Analysis)) = 14

\* The one-sided length rules: the tag, its label and the greatest length
\* that is ok.
OneSidedRules ==
    {[tag |-> "meta[name=\"twitter:title\"]", name |-> "twitter:title",
      label |-> "Twitter Title", max |-> 70],
     [tag |-> "meta[name=\"twitter:description\"]", name |-> "twitter:description",
      label |-> "Twitter Description", max |-> 200]}

\* C20: twitter:title is ok/90 for every present value of at most 70
\* characters, however short, and warning/60 above 70; twitter:description
\* is ok/90 up to 200 characters and warning/60 above; an absent one is
\* error/0 and its label is in `missing`.
C20_OneSidedTwitterRules ==
    pc = "returned" =>
        \A rule \in OneSidedRules :
            LET t == TagOf(Analysis, rule.tag)
                raw == doc.meta[rule.name]
                listed == \E k \in 1..Len(Analysis.missing) :
                             Analysis.missing[k] = rule.label
            IN  IF IsAbsent(raw)
                THEN /\ t.status = "error" /\ t.score = 0 /\ t.value = undefined
                     /\ listed
                ELSE /\ t.value = Some(trim(raw[1]))
                     /\ t.length = Some(Len(trim(raw[1])))
                     /\ ~listed
                     /\ IF Len(trim(raw[1])) <= rule.max
                        THEN t.status = "ok" /\ t.score = 90
                        ELSE t.status = "warning" /\ t.score = 60

\* An analysis of a page whose twitter:title is "Hi" and whose
\* twitter:description is absent.
C20_Witness ==
    /\ pc = "returned"
    /\ doc.meta["twitter:title"] = Some("Hi")
    /\ TagOf(Analysis, "meta[name=\"twitter:title\"]").status = "ok"
    /\ TagOf(Analysis, "meta[name=\"twitter:title\"]").score = 90
    /\ IsAbsent(doc.meta["twitter:description"])
    /\ \E k \in 1..Len(Analysis.missing) : Analysis.missing[k] = "Twitter Description"

(***************************************************************************)
(* C21: the keywords rule                                                  *)
(***************************************************************************)

\* The number of comma-separated items of s that are not empty once trimmed:
\* the positions holding an item's first character, one whose nearest
\* character before it that is not white space, if any, is a comma.
ItemCount(s) ==
    LET IsSpace(i) == SubSeq(s, i, i) \in WhiteSpace
        IsComma(i) == SubSeq(s, i, i) = ","
        Starts(i) ==
            /\ ~IsSpace(i) /\ ~IsComma(i)
            /\ \A k \in 1..(i - 1) :
                   IsComma(k) \/ IsSpace(k) \/ \E j \in (k + 1)..(i - 1) : ~IsSpace(j)
    IN  Cardinality({i \in 1..Len(s) : Starts(i)})

ElevenKeywords == "a, b, c, d, e, f, g, h, i, j, k"

\* C21: an absent keywords tag is warning/50; a present value with at most
\* 10 non-empty trimmed items, zero included (a value of commas only), is
\* ok/80; more than 10 items is warning/55 with the count in the message.
C21_KeywordsRule ==
    pc = "returned" =>
        LET raw == doc.meta["keywords"]
            t == TagOf(Analysis, "meta[name=\"keywords\"]")
            count == ItemCount(raw[1])
        IN  /\ IF IsAbsent(raw)
               THEN t.status = "warning" /\ t.score = 50 /\ t.value = undefined
               ELSE IF count <= 10
               THEN t.status = "ok" /\ t.score = 80 /\ t.value = Some(trim(raw[1]))
               ELSE /\ t.status = "warning" /\ t.score = 55
                    /\ t.value = Some(trim(raw[1]))
                    /\ includes(t.message,
                                "(" \o NumberToString(count) \o ")")
            /\ raw = Some(",,,") => t.status = "ok" /\ t.score = 80
            /\ raw = Some(ElevenKeywords) =>
                 t.message = "Too many keywords listed (11)."

\* An analysis of a page listing eleven keywords.
C21_Witness ==
    /\ pc = "returned"
    /\ doc.meta["keywords"] = Some(ElevenKeywords)
    /\ TagOf(Analysis, "meta[name=\"keywords\"]").score = 55

(***************************************************************************)
(* C22: the robots rule                                                    *)
(***************************************************************************)

\* word, which is in lower case, occurs in s in some letter case.
Mentions(s, word) ==
    \E i \in 1..(Len(s) - Len(word) + 1) :
        \A j \in 1..Len(word) :
            LowerChar(SubSeq(s, i + j - 1, i + j - 1)) = SubSeq(word, j, j)

\* C22: an absent robots tag is warning/60; a present value containing
\* noindex or nofollow as a substring in any letter case is warning/40;
\* every other present value is ok/85.
C22_RobotsRule ==
    pc = "returned" =>
        LET raw == doc.meta["robots"]
            t == TagOf(Analysis, "meta[name=\"robots\"]")
        IN  IF IsAbsent(raw)
            THEN t.status = "warning" /\ t.score = 60 /\ t.value = undefined
            ELSE IF Mentions(raw[1], "noindex") \/ Mentions(raw[1], "nofollow")
            THEN /\ t.status = "warning" /\ t.score = 40
                 /\ t.value = Some(trim(raw[1]))
            ELSE /\ t.status = "ok" /\ t.score = 85
                 /\ t.value = Some(trim(raw[1]))

\* An analysis of a page whose robots tag says NoFollow.
C22_Witness ==
    /\ pc = "returned"
    /\ doc.meta["robots"] = Some("index, NoFollow")
    /\ TagOf(Analysis, "meta[name=\"robots\"]").score = 40

(***************************************************************************)
(* C23: the optional tags                                                  *)
(***************************************************************************)

\* The optional tags that hold a URL: the element, the tag identifier, the
\* label and the message of the omission.
OptionalUrls ==
    {[element |-> <<"property", "og:url">>, tag |-> "og:url", label |-> "OG URL",
      missing |-> "OG URL is missing."],
     [element |-> <<"meta", "twitter:image">>, tag |-> "meta[name=\"twitter:image\"]",
      label |-> "Twitter Image", missing |-> "Twitter image is not specified."]}

\* C23: og:url, og:type and twitter:image are never errors: absent is
\* warning/55 and present is ok/85; the value of og:url and of twitter:image
\* is the URL resolved against the base URL, and a present value that does
\* not resolve is reported as the absent one is (warning/55, no value, the
\* omission's message), so none of the three is ever listed in missing.
C23_OptionalTags ==
    pc = "returned" =>
        LET base == BaseUrl(requestedUrl, finalUrl)
            type == TagOf(Analysis, "meta[property=\"og:type\"]")
            rawType == doc.property["og:type"]
        IN  /\ \A rule \in OptionalUrls :
                 LET raw == Raw(doc, rule.element)
                     t == TagOf(Analysis, rule.tag)
                     resolved == ParseURL(trim(raw[1]), Some(base))
                 IN  /\ t.status # "error"
                     /\ IF IsAbsent(raw) \/ resolved = Thrown
                        THEN /\ t.status = "warning" /\ t.score = 55
                             /\ t.value = undefined
                             /\ t.message = rule.missing
                        ELSE /\ t.status = "ok" /\ t.score = 85
                             /\ t.value = Some(URLToString(resolved[1]))
                     /\ \A k \in 1..Len(Analysis.missing) :
                            Analysis.missing[k] # rule.label
            /\ type.status # "error"
            /\ IF IsAbsent(rawType)
               THEN type.status = "warning" /\ type.score = 55 /\ type.value = undefined
               ELSE type.status = "ok" /\ type.score = 85
                        /\ type.value = Some(trim(rawType[1]))
            /\ \A k \in 1..Len(Analysis.missing) : Analysis.missing[k] # "OG Type"

\* An analysis of a page whose og:url is there and does not resolve.
C23_Witness ==
    /\ pc = "returned"
    /\ doc.property["og:url"] = Some("http://")
    /\ TagOf(Analysis, "og:url").score = 55

(***************************************************************************)
(* C24: the summary status, the issues and the missing labels agree        *)
(***************************************************************************)

\* C24: summary.status is ok exactly when there are no issues, and error
\* exactly when some issue has severity error; every label in missing is the
\* tag of some issue of severity error.
C24_StatusIssuesMissingAgree ==
    pc = "returned" =>
        LET status == Analysis.summary.status
            issues == Analysis.issues
            missing == Analysis.missing
        IN  /\ (status = "ok") = (issues = <<>>)
            /\ (status = "error")
                  = (\E i \in 1..Len(issues) : issues[i].severity = "error")
            /\ \A k \in 1..Len(missing) :
                   \E i \in 1..Len(issues) :
                       issues[i].tag = missing[k] /\ issues[i].severity = "error"

\* An analysis in error with a missing label and a warning among its issues.
C24_Witness ==
    /\ pc = "returned"
    /\ Analysis.summary.status = "error"
    /\ Analysis.missing # <<>>
    /\ \E i \in 1..Len(Analysis.issues) : Analysis.issues[i].severity = "warning"

(***************************************************************************)
(* C25: the preview images                                                 *)
(***************************************************************************)

\* C25: a preview image that is present is an absolute URL, the resolution
\* of the og:image or twitter:image value against the base URL; a value that
\* did not resolve is never the image of a preview.
C25_PreviewImagesAreResolved ==
    pc = "returned" =>
        LET base == BaseUrl(requestedUrl, finalUrl)
            Resolved(v) ==
                IF v = undefined THEN undefined
                ELSE LET url == ParseURL(v[1], Some(base))
                     IN  IF url = Thrown THEN undefined ELSE Some(URLToString(url[1]))
            ogRaw == Extracted(doc.property["og:image"])
            twitterRaw == Extracted(doc.meta["twitter:image"])
            ogImage == Analysis.previews.openGraph.image
            twitterImage == Analysis.previews.twitter.image
        IN  /\ ogImage # undefined =>
                 ogImage = Resolved(ogRaw) /\ IsAbsoluteUrl(ogImage[1])
            /\ twitterImage # undefined =>
                 /\ twitterImage \in {Resolved(twitterRaw), Resolved(ogRaw)}
                 /\ IsAbsoluteUrl(twitterImage[1])
            /\ \A raw \in {ogRaw, twitterRaw} :
                 raw # undefined /\ Resolved(raw) = undefined =>
                     ogImage # raw /\ twitterImage # raw

(***************************************************************************)
(* C26: the client's isLoading, error and analysis                         *)
(***************************************************************************)

\* The call's analyzeUrl resolves: its response is ok and its body an analysis.
Succeeds(request) ==
    /\ request.reply # undefined
    /\ request.reply[1].ok
    /\ request.reply[1].body.kind = "analysis"

\* C26: isLoading is true exactly while a handleAnalyze call is in flight,
\* and at most one is; starting a call sets isLoading and clears error; a
\* call that ends leaves isLoading false, and either succeeded, replacing
\* analysis and leaving error cleared, or failed, setting error and leaving
\* the analysis shown as it was.
C26_LoadingWhileInFlight ==
    /\ [](isLoading = (requests # <<>>) /\ Len(requests) <= 1)
    /\ [][/\ Len(requests') > Len(requests) => isLoading' /\ error' = undefined
          /\ Len(requests') < Len(requests) =>
               /\ ~isLoading'
               /\ IF Succeeds(requests[1])
                  THEN /\ analysis' = requests[1].reply[1].body.report
                       /\ analysis' # undefined
                       /\ error' = undefined
                  ELSE /\ error' # undefined
                       /\ analysis' = analysis]_vars

\* A call has failed after an earlier one succeeded: the error is shown
\* with the earlier analysis.
C26_Witness ==
    /\ ~isLoading
    /\ requests = <<>>
    /\ analysis # undefined
    /\ error # undefined

(***************************************************************************)
(* C27: the serverless handler                                             *)
(***************************************************************************)

\* The url parameter of the request: the string, or the array's first item.
UrlParam ==
    LET items == req[1].query.items
    IN  IF Len(items) = 0 THEN undefined ELSE Some(items[1])

CorsHeaderNames ==
    {"Access-Control-Allow-Origin", "Access-Control-Allow-Methods",
     "Access-Control-Allow-Headers", "Access-Control-Max-Age"}

\* C27: the serverless handler never sends two responses and has sent one
\* when it is done; every response leaves with the four CORS headers set;
\* OPTIONS is answered 204 without a body, then another method than GET 405
\* "Method not allowed", then a url that fails validation 400 "Invalid URL",
\* all three without a call of analyzeUrl; analyzeUrl is called, once, only
\* for a GET whose url passed validation; its analysis is answered 200 and
\* its failure with the status and payload of mapAnalysisError.
C27_OneResponseAfterCors ==
    /\ pc \in {"received", "awaiting", "done"}
    /\ Len(sent) <= 1
    /\ (pc = "done") = (Len(sent) = 1)
    /\ Len(invoked) <= 1
    /\ \A k \in 1..Len(sent) :
           /\ CorsHeaderNames \subseteq {h[1] : h \in sent[k].headers}
           /\ <<"Access-Control-Allow-Methods", "GET,OPTIONS">> \in sent[k].headers
    /\ (pc = "awaiting") = (invoked # <<>> /\ sent = <<>>)
    /\ pc # "received" =>
         IF req[1].method = "OPTIONS"
         THEN /\ invoked = <<>>
              /\ sent[1].status = 204
              /\ sent[1].error = undefined /\ sent[1].analysis = undefined
         ELSE IF req[1].method # "GET"
         THEN invoked = <<>> /\ Answered(405, "Method not allowed")
         ELSE IF UrlParam \notin HttpQueries
         THEN invoked = <<>> /\ Answered(400, "Invalid URL")
         ELSE /\ invoked = <<trim(UrlParam[1])>>
              /\ pc = "done" =>
                   /\ analyzed # undefined
                   /\ IF analyzed[1].settled = "resolved"
                      THEN /\ sent[1].status = 200
                           /\ sent[1].analysis = analyzed[1].analysis
                           /\ sent[1].error = undefined
                      ELSE Answered(mapAnalysisError(analyzed[1].error[1]).statusCode,
                                    mapAnalysisError(analyzed[1].error[1]).payload)

\* A GET with a valid url whose analyzeUrl failed on a page answering 404:
\* the request is answered 404.
C27_Witness ==
    /\ pc = "done"
    /\ req[1].method = "GET"
    /\ invoked # <<>>
    /\ analyzed # undefined
    /\ analyzed[1].settled = "rejected"
    /\ analyzed[1].error[1].kind = "upstream"
    /\ Answered(analyzed[1].error[1].status, "Unable to fetch the page")
====
